---- MODULE Spec2Model ----
(***************************************************************************)
(* Webhook-Processor: the retry-level scheduler.  A pool of workers, each  *)
(* dedicated to one retry level, polls the shared webhook_queue table,     *)
(* claims one row at a time (SELECT ... FOR UPDATE SKIP LOCKED), sends it  *)
(* and persists the outcome.                                               *)
(*                                                                         *)
(* Strings are sequences of string tokens (so that messages can be built   *)
(* and their prefixes examined); a nil pointer is the empty set and a      *)
(* non-nil pointer to v is {v}; instants are seconds on a discrete clock.  *)
(***************************************************************************)
EXTENDS Integers, Sequences, FiniteSets, TLC

VARIABLES
    rows,       \* the webhook_queue table: rows[id] is the row with that id
    sendCalls,  \* sendCalls[id]: the calls of SendWebhook made so far for the row
    worker,     \* each worker's loop position and the locals of its tick
    pool,       \* the worker pool: "stopped", "running" or "stopping"
    now,        \* the clock
    faults      \* environment faults injected so far

vars == <<rows, sendCalls, worker, pool, now, faults>>

----------------------------------------------------------------------------
(* Bounds of the model *)

\* rows the intake inserts in one run
MaxRows == 1
\* injected environment faults (storage errors, transport errors) in one run
MaxFaults == 2
\* rand.Float64() is drawn from {0/JitterSteps, ..., (JitterSteps-1)/JitterSteps}
JitterSteps == 1

----------------------------------------------------------------------------
(* Program constants *)

MaxRetryAttempts == 6
\* level-0 workers in the default roster
Level0Workers == 3
Minute == 60
Hour == 3600

Nil == {}
Ptr(v) == {v}
EmptyStr == <<>>
ZeroTime == 0

StatusPending == "PENDING"
StatusProcessing == "PROCESSING"
StatusCompleted == "COMPLETED"
StatusFailed == "FAILED"

Levels == 0..MaxRetryAttempts

\* the roster: Level0Workers workers of level 0, one worker for each of 1..6
NumWorkers == Level0Workers + MaxRetryAttempts
Workers == 1..NumWorkers
RetryLevel(w) == IF w <= Level0Workers THEN 0 ELSE w - Level0Workers

----------------------------------------------------------------------------
(* The outbound HTTP call *)

StatusText(code) ==
    CASE code = 200 -> <<"OK">>
      [] code = 503 -> <<"Service Unavailable">>
      [] OTHER -> EmptyStr

CodeStr(code) ==
    CASE code = 0 -> "0"
      [] code = 200 -> "200"
      [] code = 503 -> "503"
      [] OTHER -> "?"

\* what SendWebhook returns: (response, err); err is EmptyStr for a nil error
RespOK(code, body) == [StatusCode |-> code, Body |-> body, err |-> EmptyStr]
RespTransportErr(msg) ==
    [StatusCode |-> 0, Body |-> EmptyStr,
     err |-> <<"failed to send webhook request: ", msg>>]
RespBodyReadErr(code) ==
    [StatusCode |-> code, Body |-> EmptyStr,
     err |-> <<"failed to read response body: ", "unexpected EOF">>]

HTTPResponses == {RespOK(200, <<"{\"ok\":true}">>), RespOK(503, <<"busy">>)}
HTTPFailures == {RespTransportErr("connection refused"), RespBodyReadErr(200)}
RespCancelled == RespTransportErr("context canceled")

\* the upper limit of the success range forgotten
isSuccessfulResponseNoUpperLimit(statusCode) == statusCode >= 200

\* 300 counted as a success
isSuccessfulResponseUpTo300(statusCode) == statusCode >= 200 /\ statusCode <= 300

isSuccessfulResponse(statusCode) == statusCode >= 200 /\ statusCode < 300

----------------------------------------------------------------------------
(* Rows of webhook_queue and their in-memory copies *)

EmptySlot ==
    [started_at |-> Nil, completed_at |-> Nil, duration_ms |-> Nil,
     http_status |-> Nil, response_body |-> Nil, error |-> Nil]

\* the identity of a row: the BeforeCreate hook draws queue_id, the caller of
\* CreateWebhookEntry supplies the event and the configuration
NilUUID == <<>>
NewQueueID(id) == <<"queue", id>>
EventTypeCredit == "CREDIT"
EventTypeDebit == "DEBIT"
EventID == <<"event">>
ConfigID == 1
\* the URL of that configuration, copied onto the row
ConfigWebhookURL == <<"https://example.com/webhook">>

\* the row that Create persists for the entity built by CreateWebhookEntry
QueueRow(id, eventType, eventID, configID, webhookURL, t) ==
    [id |-> id, queue_id |-> NewQueueID(id), event_type |-> eventType,
     event_id |-> eventID, config_id |-> configID, webhook_url |-> webhookURL,
     status |-> StatusPending, retry_count |-> 0, next_retry_at |-> t,
     last_error |-> EmptyStr, last_http_status |-> 0,
     created_at |-> t, updated_at |-> t,
     processing_started_at |-> Nil, completed_at |-> Nil, deleted_at |-> Nil,
     retry |-> [k \in Levels |-> EmptySlot]]

NewRow(id, t) == QueueRow(id, EventTypeCredit, EventID, ConfigID, ConfigWebhookURL, t)

NoWebhook == [ID |-> 0]

modelToEntity(m) ==
    [ID |-> m.id, QueueID |-> m.queue_id, EventType |-> m.event_type,
     EventID |-> m.event_id, ConfigID |-> m.config_id,
     WebhookURL |-> m.webhook_url,
     Status |-> m.status, RetryCount |-> m.retry_count,
     NextRetryAt |-> m.next_retry_at, LastError |-> m.last_error,
     LastHTTPStatus |-> m.last_http_status, UpdatedAt |-> m.updated_at,
     ProcessingStartedAt |-> m.processing_started_at,
     CompletedAt |-> m.completed_at, DeletedAt |-> m.deleted_at]

\* off by one: a retry is granted at the last level too
CanRetryAtLastLevel(w) == w.RetryCount <= MaxRetryAttempts /\ w.Status # StatusCompleted

\* off by one the other way: the last level is never reached
CanRetryOneShort(w) == w.RetryCount < MaxRetryAttempts - 1 /\ w.Status # StatusCompleted

CanRetry(w) == w.RetryCount < MaxRetryAttempts /\ w.Status # StatusCompleted

IdleWorker(pc, done) ==
    [pc |-> pc, ctxDone |-> done, webhook |-> NoWebhook, rowId |-> 0,
     claimNow |-> ZeroTime, attemptStartTime |-> ZeroTime,
     attemptEndTime |-> ZeroTime, resp |-> RespOK(0, EmptyStr),
     errorMsg |-> EmptyStr, updateErr |-> FALSE]

RowIds == 1..Len(rows)

----------------------------------------------------------------------------
(* The queue repository: what each statement does to the row it touches *)

\* the UPDATE inside the claim transaction
ClaimUpdate(m, t) == [m EXCEPT !.status = StatusProcessing, !.updated_at = t]

\* the WHERE clause without its status condition
EligibleAnyStatus(m, retryLevel, t) ==
    /\ m.retry_count = retryLevel
    /\ m.next_retry_at <= t

\* the WHERE clause without its next_retry_at condition
EligibleIgnoringTime(m, retryLevel, t) ==
    /\ m.status = StatusPending
    /\ m.retry_count = retryLevel

\* ClaimNext's WHERE clause
\* the claim leaves soft-deleted rows alone
EligibleNotDeleted(m, retryLevel, t) ==
    /\ m.status = StatusPending
    /\ m.retry_count = retryLevel
    /\ m.next_retry_at <= t
    /\ m.deleted_at = Nil

Eligible(m, retryLevel, t) ==
    /\ m.status = StatusPending
    /\ m.retry_count = retryLevel
    /\ m.next_retry_at <= t

\* the record is written to the slot of the level after the attempt's
UpdateRetryAttemptNextLevel(m, retryLevel, startedAt, completedAt, durationMs, httpStatus, responseBody, errorMsg, t) ==
    LET summary == [m EXCEPT !.updated_at = t,
                             !.last_http_status = httpStatus,
                             !.last_error = IF errorMsg # EmptyStr THEN errorMsg ELSE @]
        slot == [started_at |-> Ptr(startedAt),
                 completed_at |-> completedAt,
                 duration_ms |-> Ptr(durationMs),
                 http_status |-> Ptr(httpStatus),
                 response_body |-> Ptr(responseBody),
                 error |-> IF errorMsg # EmptyStr THEN Ptr(errorMsg) ELSE Nil]
    IN  IF retryLevel + 1 \in Levels
        THEN [summary EXCEPT !.retry[retryLevel + 1] = slot]
        ELSE summary

\* the summary columns are written, the slot is not
UpdateRetryAttemptSummaryOnly(m, retryLevel, startedAt, completedAt, durationMs, httpStatus, responseBody, errorMsg, t) ==
    [m EXCEPT !.updated_at = t,
              !.last_http_status = httpStatus,
              !.last_error = IF errorMsg # EmptyStr THEN errorMsg ELSE @]

UpdateRetryAttempt(m, retryLevel, startedAt, completedAt, durationMs, httpStatus, responseBody, errorMsg, t) ==
    LET summary == [m EXCEPT !.updated_at = t,
                             !.last_http_status = httpStatus,
                             !.last_error = IF errorMsg # EmptyStr THEN errorMsg ELSE @]
        slot == [started_at |-> Ptr(startedAt),
                 completed_at |-> IF completedAt # Nil THEN completedAt
                                  ELSE m.retry[retryLevel].completed_at,
                 duration_ms |-> Ptr(durationMs),
                 http_status |-> Ptr(httpStatus),
                 response_body |-> Ptr(responseBody),
                 error |-> IF errorMsg # EmptyStr THEN Ptr(errorMsg)
                           ELSE m.retry[retryLevel].error]
    IN  IF retryLevel \in Levels
        THEN [summary EXCEPT !.retry[retryLevel] = slot]
        ELSE summary

\* completing a row clears its last_error
MarkCompletedClearingError(m, processingStartedAt, t) ==
    [m EXCEPT !.status = StatusCompleted,
              !.processing_started_at = Ptr(processingStartedAt),
              !.completed_at = Ptr(t),
              !.last_error = EmptyStr,
              !.updated_at = t]

MarkCompleted(m, processingStartedAt, t) ==
    [m EXCEPT !.status = StatusCompleted,
              !.processing_started_at = Ptr(processingStartedAt),
              !.completed_at = Ptr(t),
              !.updated_at = t]

MarkFailed(m, errorMsg, t) ==
    [m EXCEPT !.status = StatusFailed, !.last_error = errorMsg, !.updated_at = t]

\* the merge leaves the persisted status alone
mergeWebhookIntoModelKeepStatus(m, u) ==
    LET pair == u.RetryCount # 0 \/ u.NextRetryAt # ZeroTime
    IN  [m EXCEPT
          !.retry_count = IF pair THEN u.RetryCount ELSE @,
          !.next_retry_at = IF pair THEN u.NextRetryAt ELSE @,
          !.last_error = IF u.LastError # EmptyStr THEN u.LastError ELSE @,
          !.last_http_status = IF u.LastHTTPStatus # 0 THEN u.LastHTTPStatus ELSE @,
          !.updated_at = IF u.UpdatedAt # ZeroTime THEN u.UpdatedAt ELSE @]

\* retry_count and next_retry_at are merged each on its own
mergeWebhookIntoModelFieldwise(m, u) ==
    [m EXCEPT
      !.queue_id = IF u.QueueID # NilUUID THEN u.QueueID ELSE @,
      !.event_type = IF u.EventType # "" THEN u.EventType ELSE @,
      !.event_id = IF u.EventID # EmptyStr THEN u.EventID ELSE @,
      !.config_id = IF u.ConfigID # 0 THEN u.ConfigID ELSE @,
      !.webhook_url = IF u.WebhookURL # EmptyStr THEN u.WebhookURL ELSE @,
      !.status = IF u.Status # "" THEN u.Status ELSE @,
      !.retry_count = IF u.RetryCount # 0 THEN u.RetryCount ELSE @,
      !.next_retry_at = IF u.NextRetryAt # ZeroTime THEN u.NextRetryAt ELSE @,
      !.last_error = IF u.LastError # EmptyStr THEN u.LastError ELSE @,
      !.last_http_status = IF u.LastHTTPStatus # 0 THEN u.LastHTTPStatus ELSE @,
      !.updated_at = IF u.UpdatedAt # ZeroTime THEN u.UpdatedAt ELSE @,
      !.processing_started_at =
          IF u.ProcessingStartedAt # Nil THEN u.ProcessingStartedAt ELSE @,
      !.completed_at = IF u.CompletedAt # Nil THEN u.CompletedAt ELSE @,
      !.deleted_at = IF u.DeletedAt # Nil THEN u.DeletedAt ELSE @]

mergeWebhookIntoModel(m, u) ==
    LET pair == u.RetryCount # 0 \/ u.NextRetryAt # ZeroTime
    IN  [m EXCEPT
          !.queue_id = IF u.QueueID # NilUUID THEN u.QueueID ELSE @,
          !.event_type = IF u.EventType # "" THEN u.EventType ELSE @,
          !.event_id = IF u.EventID # EmptyStr THEN u.EventID ELSE @,
          !.config_id = IF u.ConfigID # 0 THEN u.ConfigID ELSE @,
          !.webhook_url = IF u.WebhookURL # EmptyStr THEN u.WebhookURL ELSE @,
          !.status = IF u.Status # "" THEN u.Status ELSE @,
          !.retry_count = IF pair THEN u.RetryCount ELSE @,
          !.next_retry_at = IF pair THEN u.NextRetryAt ELSE @,
          !.last_error = IF u.LastError # EmptyStr THEN u.LastError ELSE @,
          !.last_http_status = IF u.LastHTTPStatus # 0 THEN u.LastHTTPStatus ELSE @,
          !.updated_at = IF u.UpdatedAt # ZeroTime THEN u.UpdatedAt ELSE @,
          !.processing_started_at =
              IF u.ProcessingStartedAt # Nil THEN u.ProcessingStartedAt ELSE @,
          !.completed_at = IF u.CompletedAt # Nil THEN u.CompletedAt ELSE @,
          !.deleted_at = IF u.DeletedAt # Nil THEN u.DeletedAt ELSE @]

\* Update: read the row, merge, Save (the BeforeUpdate hook stamps updated_at)
Update(m, u, t) == [mergeWebhookIntoModel(m, u) EXCEPT !.updated_at = t]

----------------------------------------------------------------------------
(* The attempt processor *)

BaseDelay(retryCount) ==
    CASE retryCount = 0 -> 1 * Minute
      [] retryCount = 1 -> 5 * Minute
      [] retryCount = 2 -> 10 * Minute
      [] retryCount = 3 -> 30 * Minute
      [] retryCount = 4 -> 60 * Minute
      [] retryCount = 5 -> 120 * Minute
      [] OTHER -> 4 * Hour

\* the conversion of a quotient to time.Duration truncates toward zero
TruncDiv(n, d) == IF n >= 0 THEN n \div d ELSE -((-n) \div d)

\* the minimum of one minute is not applied
FinalDelayNoMinimum(retryCount, j, steps) ==
    LET baseDelay == BaseDelay(retryCount)
        jitterRange == baseDelay \div 4
    IN  baseDelay + TruncDiv(j * jitterRange * 2 - jitterRange * steps, steps)

\* the delay for the draw rand.Float64() = j / steps
FinalDelay(retryCount, j, steps) ==
    LET baseDelay == BaseDelay(retryCount)
        jitterRange == baseDelay \div 4
        jitter == TruncDiv(j * jitterRange * 2 - jitterRange * steps, steps)
        finalDelay == baseDelay + jitter
    IN  IF finalDelay < Minute THEN Minute ELSE finalDelay

calculateNextRetryTime(retryCount, j, steps, t) == t + FinalDelay(retryCount, j, steps)

\* the error text ProcessWebhook derives from Send's result
AttemptErrorMsg(resp) ==
    IF resp.err # EmptyStr THEN resp.err
    ELSE IF ~isSuccessfulResponse(resp.StatusCode)
         THEN <<"HTTP ", CodeStr(resp.StatusCode), ": ">> \o StatusText(resp.StatusCode)
         ELSE EmptyStr

\* the error returned by SendWebhook is not looked at
AttemptSucceededIgnoringErr(resp) == isSuccessfulResponse(resp.StatusCode)

AttemptSucceeded(resp) ==
    resp.err = EmptyStr /\ isSuccessfulResponse(resp.StatusCode)

FinalErrorMsg(resp) ==
    IF resp.err # EmptyStr THEN <<"max retries exceeded", ": ">> \o resp.err
    ELSE <<"max retries exceeded", ": ", "HTTP ", CodeStr(resp.StatusCode)>>

----------------------------------------------------------------------------
(* Environment: a database or HTTP call made on a cancelled context fails;  *)
(* on a live context it succeeds or, while the fault budget lasts, fails.   *)

\* calls on a cancelled context go through like any other
CallOutcomesIgnoringCancel(w) ==
    IF faults < MaxFaults THEN {TRUE, FALSE} ELSE {TRUE}

CallOutcomes(w) ==
    IF worker[w].ctxDone THEN {FALSE}
    ELSE IF faults < MaxFaults THEN {TRUE, FALSE} ELSE {TRUE}

CountFault(w, ok) ==
    faults' = IF ok \/ worker[w].ctxDone THEN faults ELSE faults + 1

\* rows whose row lock is held by an open claim transaction
LockedRows == {worker[w].rowId : w \in {x \in Workers : worker[x].pc = "locked"}}

\* a plain SELECT: no row lock is taken or honoured
ClaimCandidatesUnlocked(retryLevel, t) ==
    LET free == {r \in RowIds : Eligible(rows[r], retryLevel, t)}
    IN  {r \in free : \A q \in free : rows[r].next_retry_at <= rows[q].next_retry_at}

\* the rows SELECT ... FOR UPDATE SKIP LOCKED ... ORDER BY next_retry_at ASC
\* LIMIT 1 may return
\* LIMIT 1 taken before the lock: the first eligible row in order is looked
\* at alone, and nothing is returned when another transaction has it locked
ClaimCandidatesHeadOnly(retryLevel, t) ==
    LET all == {r \in RowIds : Eligible(rows[r], retryLevel, t)}
        head == {r \in all : \A q \in all :
                    \/ rows[r].next_retry_at < rows[q].next_retry_at
                    \/ rows[r].next_retry_at = rows[q].next_retry_at /\ r <= q}
    IN  head \ LockedRows

\* no ORDER BY: any eligible row that is not locked
ClaimCandidatesAnyOrder(retryLevel, t) ==
    {r \in RowIds : Eligible(rows[r], retryLevel, t) /\ r \notin LockedRows}

ClaimCandidates(retryLevel, t) ==
    LET free == {r \in RowIds : Eligible(rows[r], retryLevel, t) /\ r \notin LockedRows}
    IN  {r \in free : \A q \in free : rows[r].next_retry_at <= rows[q].next_retry_at}

Init ==
    /\ rows = <<>>
    /\ sendCalls = <<>>
    /\ worker = [w \in Workers |-> IdleWorker("none", FALSE)]
    /\ pool = "stopped"
    /\ now = 1
    /\ faults = 0

----------------------------------------------------------------------------
(* Intake and the clock *)

\* CreateWebhookEntry: one PENDING row, retry_count 0, eligible now; the
\* intake accepts rows while the table holds fewer than limit
CreateWebhookEntry(limit) ==
    /\ Len(rows) < limit
    /\ rows' = Append(rows, NewRow(Len(rows) + 1, now))
    /\ sendCalls' = Append(sendCalls, 0)
    /\ UNCHANGED <<worker, pool, now, faults>>

Insert == CreateWebhookEntry(MaxRows)

\* time passes until the next instant at which a PENDING row becomes eligible
AdvanceTime ==
    LET due == {rows[r].next_retry_at : r \in {x \in RowIds :
                    rows[x].status = StatusPending /\ rows[x].next_retry_at > now}}
    IN  /\ due # {}
        /\ now' = CHOOSE t \in due : \A u \in due : t <= u
        /\ UNCHANGED <<rows, sendCalls, worker, pool, faults>>

----------------------------------------------------------------------------
(* The worker: processLoop and processNextWebhook *)

\* a tick: begin the claim transaction and run the locking SELECT
ClaimSelect(w) ==
    /\ worker[w].pc = "select"
    /\ \E ok \in CallOutcomes(w) :
        /\ CountFault(w, ok)
        /\ IF ok /\ ClaimCandidates(RetryLevel(w), now) # {}
           THEN \E r \in ClaimCandidates(RetryLevel(w), now) :
                  worker' = [worker EXCEPT ![w].pc = "locked", ![w].rowId = r,
                                           ![w].claimNow = now]
           ELSE UNCHANGED worker
    /\ UNCHANGED <<rows, sendCalls, pool, now>>

\* the UPDATE to PROCESSING survives a failed commit: no rollback
ClaimCommitNoRollback(w) ==
    /\ worker[w].pc = "locked"
    /\ \E ok \in CallOutcomes(w) :
        /\ CountFault(w, ok)
        /\ rows' = [rows EXCEPT ![worker[w].rowId] =
                       ClaimUpdate(@, worker[w].claimNow)]
        /\ worker' = IF ok
                     THEN [worker EXCEPT ![w].pc = "claimed",
                                         ![w].webhook = modelToEntity(rows'[worker[w].rowId])]
                     ELSE [worker EXCEPT ![w] = IdleWorker("select", worker[w].ctxDone)]
    /\ UNCHANGED <<sendCalls, pool, now>>

\* the claim's UPDATE has no "id = ?" condition: one tick moves every row
\* that is due at the worker's level to PROCESSING
ClaimCommitAllDue(w) ==
    /\ worker[w].pc = "locked"
    /\ \E ok \in CallOutcomes(w) :
        /\ CountFault(w, ok)
        /\ IF ok
           THEN LET m == ClaimUpdate(rows[worker[w].rowId], worker[w].claimNow)
                IN  /\ rows' = [r \in RowIds |->
                                   IF Eligible(rows[r], RetryLevel(w), worker[w].claimNow)
                                   THEN ClaimUpdate(rows[r], worker[w].claimNow)
                                   ELSE rows[r]]
                    /\ worker' = [worker EXCEPT ![w].pc = "claimed",
                                                ![w].webhook = modelToEntity(m)]
           ELSE /\ worker' = [worker EXCEPT ![w] = IdleWorker("select", worker[w].ctxDone)]
                /\ UNCHANGED rows
    /\ UNCHANGED <<sendCalls, pool, now>>

\* the claim commits without writing PROCESSING, as if the row lock outlived
\* the transaction
ClaimCommitLockOnly(w) ==
    /\ worker[w].pc = "locked"
    /\ \E ok \in CallOutcomes(w) :
        /\ CountFault(w, ok)
        /\ IF ok
           THEN LET m == ClaimUpdate(rows[worker[w].rowId], worker[w].claimNow)
                IN  /\ worker' = [worker EXCEPT ![w].pc = "claimed",
                                                ![w].webhook = modelToEntity(m)]
                    /\ UNCHANGED rows
           ELSE /\ worker' = [worker EXCEPT ![w] = IdleWorker("select", worker[w].ctxDone)]
                /\ UNCHANGED rows
    /\ UNCHANGED <<sendCalls, pool, now>>

\* the UPDATE to PROCESSING and the commit; on failure the deferred rollback
ClaimCommit(w) ==
    /\ worker[w].pc = "locked"
    /\ \E ok \in CallOutcomes(w) :
        /\ CountFault(w, ok)
        /\ IF ok
           THEN LET m == ClaimUpdate(rows[worker[w].rowId], worker[w].claimNow)
                IN  /\ rows' = [rows EXCEPT ![worker[w].rowId] = m]
                    /\ worker' = [worker EXCEPT ![w].pc = "claimed",
                                                ![w].webhook = modelToEntity(m)]
           ELSE /\ worker' = [worker EXCEPT ![w] = IdleWorker("select", worker[w].ctxDone)]
                /\ UNCHANGED rows
    /\ UNCHANGED <<sendCalls, pool, now>>

\* ProcessWebhook up to the call of SendWebhook
SendStart(w) ==
    /\ worker[w].pc = "claimed"
    /\ worker' = [worker EXCEPT ![w].pc = "sending", ![w].attemptStartTime = now]
    /\ sendCalls' = [sendCalls EXCEPT ![worker[w].webhook.ID] = @ + 1]
    /\ UNCHANGED <<rows, pool, now, faults>>

SendResults(w) ==
    IF worker[w].ctxDone THEN {RespCancelled}
    ELSE HTTPResponses \cup (IF faults < MaxFaults THEN HTTPFailures ELSE {})

\* SendWebhook returns
SendReturn(w) ==
    /\ worker[w].pc = "sending"
    /\ \E resp \in SendResults(w) :
        /\ worker' = [worker EXCEPT ![w].pc = "sent", ![w].resp = resp,
                                    ![w].attemptEndTime = now,
                                    ![w].errorMsg = AttemptErrorMsg(resp)]
        /\ faults' = IF resp \in HTTPFailures THEN faults + 1 ELSE faults
    /\ UNCHANGED <<rows, sendCalls, pool, now>>

\* the error of UpdateRetryAttempt is returned instead of logged: the worker
\* goes to its reset
RecordAttemptPropagating(w) ==
    /\ worker[w].pc = "sent"
    /\ \E ok \in CallOutcomes(w) :
        /\ CountFault(w, ok)
        /\ rows' = IF ok
                   THEN [rows EXCEPT ![worker[w].webhook.ID] =
                           UpdateRetryAttempt(@, worker[w].webhook.RetryCount,
                               worker[w].attemptStartTime, Ptr(worker[w].attemptEndTime),
                               (worker[w].attemptEndTime - worker[w].attemptStartTime) * 1000,
                               worker[w].resp.StatusCode, worker[w].resp.Body,
                               worker[w].errorMsg, now)]
                   ELSE rows
        /\ worker' = [worker EXCEPT
              ![w].pc = IF ok THEN "recorded" ELSE "reset",
              ![w].updateErr = ~ok,
              ![w].webhook.LastHTTPStatus = worker[w].resp.StatusCode,
              ![w].webhook.LastError =
                  IF worker[w].errorMsg # EmptyStr THEN worker[w].errorMsg ELSE @]
    /\ UNCHANGED <<sendCalls, pool, now>>

\* UpdateRetryAttempt, whose error is logged and dropped, then the in-memory summary
RecordAttempt(w) ==
    /\ worker[w].pc = "sent"
    /\ \E ok \in CallOutcomes(w) :
        /\ CountFault(w, ok)
        /\ rows' = IF ok
                   THEN [rows EXCEPT ![worker[w].webhook.ID] =
                           UpdateRetryAttempt(@, worker[w].webhook.RetryCount,
                               worker[w].attemptStartTime, Ptr(worker[w].attemptEndTime),
                               (worker[w].attemptEndTime - worker[w].attemptStartTime) * 1000,
                               worker[w].resp.StatusCode, worker[w].resp.Body,
                               worker[w].errorMsg, now)]
                   ELSE rows
        /\ worker' = [worker EXCEPT
              ![w].pc = "recorded",
              ![w].updateErr = ~ok,
              ![w].webhook.LastHTTPStatus = worker[w].resp.StatusCode,
              ![w].webhook.LastError =
                  IF worker[w].errorMsg # EmptyStr THEN worker[w].errorMsg ELSE @]
    /\ UNCHANGED <<sendCalls, pool, now>>

\* processNextWebhook returns: the worker is back in its loop
Released(w) == [worker EXCEPT ![w] = IdleWorker("select", worker[w].ctxDone)]

\* success: MarkCompleted
Complete(w) ==
    /\ worker[w].pc = "recorded"
    /\ AttemptSucceeded(worker[w].resp)
    /\ \E ok \in CallOutcomes(w) :
        /\ CountFault(w, ok)
        /\ IF ok
           THEN /\ rows' = [rows EXCEPT ![worker[w].webhook.ID] =
                              MarkCompleted(@, worker[w].attemptStartTime, now)]
                /\ worker' = Released(w)
           ELSE /\ worker' = [worker EXCEPT ![w].pc = "reset"]
                /\ UNCHANGED rows
    /\ UNCHANGED <<sendCalls, pool, now>>

\* failure with retries left: the in-memory row is moved to the next level and
\* written with Update; rand.Float64() is drawn from a grid of steps values
RescheduleDrawing(w, steps) ==
    /\ worker[w].pc = "recorded"
    /\ ~AttemptSucceeded(worker[w].resp)
    /\ CanRetry(worker[w].webhook)
    /\ \E j \in 0..(steps - 1) : \E ok \in CallOutcomes(w) :
        LET u == [worker[w].webhook EXCEPT
                    !.RetryCount = @ + 1,
                    !.NextRetryAt = calculateNextRetryTime(worker[w].webhook.RetryCount, j, steps, now),
                    !.Status = StatusPending,
                    !.UpdatedAt = now]
        IN  /\ CountFault(w, ok)
            /\ IF ok
               THEN /\ rows' = [rows EXCEPT ![u.ID] = Update(@, u, now)]
                    /\ worker' = Released(w)
               ELSE /\ worker' = [worker EXCEPT ![w].pc = "reset", ![w].webhook = u]
                    /\ UNCHANGED rows
    /\ UNCHANGED <<sendCalls, pool, now>>

Reschedule(w) == RescheduleDrawing(w, JitterSteps)

\* failure with no retry left: MarkFailed
Fail(w) ==
    /\ worker[w].pc = "recorded"
    /\ ~AttemptSucceeded(worker[w].resp)
    /\ ~CanRetry(worker[w].webhook)
    /\ \E ok \in CallOutcomes(w) :
        /\ CountFault(w, ok)
        /\ IF ok
           THEN /\ rows' = [rows EXCEPT ![worker[w].webhook.ID] =
                              MarkFailed(@, FinalErrorMsg(worker[w].resp), now)]
                /\ worker' = Released(w)
           ELSE /\ worker' = [worker EXCEPT ![w].pc = "reset"]
                /\ UNCHANGED rows
    /\ UNCHANGED <<sendCalls, pool, now>>

\* the reset starts the row's schedule afresh: level 0, due now
ResetToPendingFresh(w) ==
    /\ worker[w].pc = "reset"
    /\ \E ok \in CallOutcomes(w) :
        LET u == [worker[w].webhook EXCEPT !.Status = StatusPending, !.UpdatedAt = now,
                                           !.RetryCount = 0, !.NextRetryAt = now]
        IN  /\ CountFault(w, ok)
            /\ rows' = IF ok THEN [rows EXCEPT ![u.ID] = Update(@, u, now)] ELSE rows
    /\ worker' = Released(w)
    /\ UNCHANGED <<sendCalls, pool, now>>

\* the reset puts the row a minute into the future
ResetToPendingDelayed(w) ==
    /\ worker[w].pc = "reset"
    /\ \E ok \in CallOutcomes(w) :
        LET u == [worker[w].webhook EXCEPT !.Status = StatusPending, !.UpdatedAt = now,
                                           !.NextRetryAt = now + Minute]
        IN  /\ CountFault(w, ok)
            /\ rows' = IF ok THEN [rows EXCEPT ![u.ID] = Update(@, u, now)] ELSE rows
    /\ worker' = Released(w)
    /\ UNCHANGED <<sendCalls, pool, now>>

\* the reset writes the level and the due time the row was claimed with
ResetToPendingSameLevel(w) ==
    /\ worker[w].pc = "reset"
    /\ \E ok \in CallOutcomes(w) :
        LET u == [worker[w].webhook EXCEPT !.Status = StatusPending, !.UpdatedAt = now,
                                           !.RetryCount = rows[worker[w].webhook.ID].retry_count,
                                           !.NextRetryAt = rows[worker[w].webhook.ID].next_retry_at]
        IN  /\ CountFault(w, ok)
            /\ rows' = IF ok THEN [rows EXCEPT ![u.ID] = Update(@, u, now)] ELSE rows
    /\ worker' = Released(w)
    /\ UNCHANGED <<sendCalls, pool, now>>

\* ProcessWebhook returned an error: ResetWebhookToPending, whose own error
\* is only logged
ResetToPending(w) ==
    /\ worker[w].pc = "reset"
    /\ \E ok \in CallOutcomes(w) :
        LET u == [worker[w].webhook EXCEPT !.Status = StatusPending, !.UpdatedAt = now]
        IN  /\ CountFault(w, ok)
            /\ rows' = IF ok THEN [rows EXCEPT ![u.ID] = Update(@, u, now)] ELSE rows
    /\ worker' = Released(w)
    /\ UNCHANGED <<sendCalls, pool, now>>

----------------------------------------------------------------------------
(* The worker pool *)

\* Start: a fresh worker per roster entry, each loop started
PoolStart ==
    /\ pool = "stopped"
    /\ pool' = "running"
    /\ worker' = [w \in Workers |-> IdleWorker("select", FALSE)]
    /\ UNCHANGED <<rows, sendCalls, now, faults>>

\* Stop takes the pool's mutex; stopWorkers calls every worker's Stop, which
\* cancels the worker's context and then waits for its loop.  The cancels do
\* not wait for anything, so they are taken together.
PoolStop ==
    /\ pool = "running"
    /\ pool' = "stopping"
    /\ worker' = [w \in Workers |-> [worker[w] EXCEPT !.ctxDone = TRUE]]
    /\ UNCHANGED <<rows, sendCalls, now, faults>>

\* every loop is back in its select with its context done and takes the Done
\* branch; every worker's Stop returns, the roster is cleared, Stop returns
PoolStopReturn ==
    /\ pool = "stopping"
    /\ \A w \in Workers : worker[w].pc = "select" /\ worker[w].ctxDone
    /\ pool' = "stopped"
    /\ worker' = [w \in Workers |-> IdleWorker("none", FALSE)]
    /\ UNCHANGED <<rows, sendCalls, now, faults>>

WorkerStep(w) ==
    \/ ClaimSelect(w)
    \/ ClaimCommit(w)
    \/ SendStart(w)
    \/ SendReturn(w)
    \/ RecordAttempt(w)
    \/ Complete(w)
    \/ Reschedule(w)
    \/ Fail(w)
    \/ ResetToPending(w)

Next ==
    \/ Insert
    \/ AdvanceTime
    \/ PoolStart
    \/ PoolStop
    \/ PoolStopReturn
    \/ \E w \in Workers : WorkerStep(w)

Spec == Init /\ [][Next]_vars

----------------------------------------------------------------------------
(* Vocabulary of the properties *)

Terminal == {StatusCompleted, StatusFailed}

\* the worker is inside ProcessWebhook (or the reset after it) for row r
Holds(w, r) ==
    /\ worker[w].pc \in {"claimed", "sending", "sent", "recorded", "reset"}
    /\ worker[w].webhook.ID = r

\* the worker's claim transaction has row r locked
Locks(w, r) == worker[w].pc = "locked" /\ worker[w].rowId = r

Holders(r) == {w \in Workers : Holds(w, r)}
Claimants(r) == {w \in Workers : Holds(w, r) \/ Locks(w, r)}

----------------------------------------------------------------------------
(* C1.  At every instant each row is under claim by at most one worker:    *)
(* counting both the workers that hold the row between their claim and     *)
(* their terminal write or reset and the workers whose claim transaction   *)
(* has selected it, no row has two claimants, so concurrent ClaimNext      *)
(* calls never return the same PENDING row twice.                          *)
C1_AtMostOneClaimant == \A r \in RowIds : Cardinality(Claimants(r)) <= 1

\* a level-0 worker holds the row while the pool, with its other level-0
\* workers polling, is running
C1_Witness ==
    \E r \in RowIds : \E w \in Workers :
        /\ Holds(w, r)
        /\ pool = "running"
        /\ \E v \in Workers \ {w} : RetryLevel(v) = RetryLevel(w) /\ worker[v].pc = "select"

----------------------------------------------------------------------------
(* The specification under which delivery is followed to its end: the pool *)
(* is started and never stopped, every worker's ticks keep firing, every   *)
(* call returns and time advances.                                         *)

NextLive ==
    \/ Insert
    \/ AdvanceTime
    \/ PoolStart
    \/ \E w \in Workers : WorkerStep(w)

FairSpec ==
    /\ Init
    /\ [][NextLive]_vars
    /\ WF_vars(PoolStart)
    /\ WF_vars(AdvanceTime)
    /\ \A w \in Workers : WF_vars(WorkerStep(w))

(* C2.  Every row accepted by intake eventually reaches COMPLETED or       *)
(* FAILED: no row stays PENDING or PROCESSING forever.                     *)
C2_EveryRowTerminates ==
    \A r \in 1..MaxRows :
        (Len(rows) >= r) ~> (Len(rows) >= r /\ rows[r].status \in Terminal)

----------------------------------------------------------------------------
(* C3.  SendWebhook is called for a row at most seven times over the row's *)
(* lifetime (once for each of the levels 0..6); an eighth attempt is never *)
(* made.                                                                   *)
C3_AtMostSevenSends == \A r \in RowIds : sendCalls[r] <= MaxRetryAttempts + 1

----------------------------------------------------------------------------
(* C4.  A row that a worker has in flight when Stop cancels the worker is  *)
(* not left in PROCESSING: when that worker lets go of the row (so before  *)
(* Stop returns) the row is COMPLETED, FAILED or PENDING.  A worker whose  *)
(* context is done cannot claim, so a worker that holds a row with its     *)
(* context done had the row in flight when Stop was called.                *)
C4_StopLeavesNoRowProcessing ==
    [][\A w \in Workers : \A r \in RowIds :
          (worker[w].ctxDone /\ Holds(w, r) /\ ~Holds(w, r)')
              => rows'[r].status # StatusProcessing]_vars

----------------------------------------------------------------------------
(* C5.  In every reachable state each PROCESSING row is held by exactly    *)
(* one worker that is executing its attempt.                               *)
C5_ProcessingHasOneHolder ==
    \A r \in RowIds :
        rows[r].status = StatusProcessing => Cardinality(Holders(r)) = 1

----------------------------------------------------------------------------
(* C6.  Terminal states are absorbing: once a row is COMPLETED or FAILED,  *)
(* no step changes its status, retry_count, next_retry_at or any field of  *)
(* its attempt history.                                                    *)
C6_TerminalIsAbsorbing ==
    [][\A r \in RowIds :
          rows[r].status \in Terminal =>
              /\ rows'[r].status = rows[r].status
              /\ rows'[r].retry_count = rows[r].retry_count
              /\ rows'[r].next_retry_at = rows[r].next_retry_at
              /\ rows'[r].retry = rows[r].retry]_vars

\* a row is terminal (and eligible by level and time, were it not for its
\* status) while the pool is running and every worker is polling
C6_Witness ==
    \E r \in RowIds :
        /\ rows[r].status \in Terminal
        /\ pool = "running"
        /\ \A w \in Workers : worker[w].pc = "select"
        /\ rows[r].next_retry_at <= now

----------------------------------------------------------------------------
(* C7.  The persisted retry_count of every row stays within 0..6 and never *)
(* decreases, whatever claims, attempts, reschedules and resets happen.    *)
C7_RetryCountMonotoneInRange ==
    [][/\ \A r \in RowIds : rows'[r].retry_count >= rows[r].retry_count
       /\ \A r \in 1..Len(rows') : rows'[r].retry_count \in 0..MaxRetryAttempts]_vars

\* a row has been taken through every level, one of them by way of a reset
C7_Witness ==
    \E r \in RowIds :
        /\ rows[r].retry_count = MaxRetryAttempts
        /\ sendCalls[r] > MaxRetryAttempts + 1

----------------------------------------------------------------------------
(* C8.  A row becomes FAILED only by a failed attempt executed at level 6: *)
(* the step that marks it FAILED is taken by the worker that holds it,     *)
(* after an attempt at retry_count 6 that was not a success, and every     *)
(* FAILED row has retry_count 6.                                           *)
C8_FailedOnlyAtLastLevel ==
    [][\A r \in RowIds :
          rows'[r].status = StatusFailed =>
              /\ rows'[r].retry_count = MaxRetryAttempts
              /\ rows[r].status # StatusFailed =>
                    \E w \in Holders(r) :
                        /\ worker[w].webhook.RetryCount = MaxRetryAttempts
                        /\ RetryLevel(w) = MaxRetryAttempts
                        /\ ~(worker[w].resp.err = EmptyStr
                             /\ worker[w].resp.StatusCode \in 200..299)]_vars

C8_Witness == \E r \in RowIds : rows[r].status = StatusFailed

----------------------------------------------------------------------------
(* C9 as stated.  For every COMPLETED row the history record of its final  *)
(* retry_count holds an http_status in [200, 300).                         *)
C9_CompletedSlotHolds2xx ==
    \A r \in RowIds :
        rows[r].status = StatusCompleted =>
            /\ rows[r].retry[rows[r].retry_count].http_status # Nil
            /\ rows[r].retry[rows[r].retry_count].http_status \subseteq 200..299

(* C9 as amended.  A row becomes COMPLETED only by the worker that holds   *)
(* it, after an attempt that returned no transport error and a status in   *)
(* [200, 300); the history record of the row's retry_count holds that      *)
(* status whenever the RecordAttempt of that attempt succeeded (a failed   *)
(* RecordAttempt is logged and dropped, and the row is completed with the  *)
(* record as it was).                                                      *)
C9_CompletedAfter2xx ==
    [][\A r \in RowIds :
          (rows[r].status # StatusCompleted /\ rows'[r].status = StatusCompleted) =>
              \E w \in Holders(r) :
                  /\ worker[w].resp.err = EmptyStr
                  /\ worker[w].resp.StatusCode \in 200..299
                  /\ ~worker[w].updateErr =>
                        rows'[r].retry[rows'[r].retry_count].http_status
                            = Ptr(worker[w].resp.StatusCode)]_vars

\* a row completed at a level above 0, its record written
C9_Witness ==
    \E r \in RowIds :
        /\ rows[r].status = StatusCompleted
        /\ rows[r].retry_count > 0
        /\ rows[r].retry[rows[r].retry_count].http_status = Ptr(200)

----------------------------------------------------------------------------
(* C10.  The history slot of a level is written at most once: after the    *)
(* first RecordAttempt for level k, none of the slot's six fields changes. *)
C10_SlotWrittenOnce ==
    [][\A r \in RowIds : \A k \in Levels :
          rows[r].retry[k] # EmptySlot => rows'[r].retry[k] = rows[r].retry[k]]_vars

----------------------------------------------------------------------------
(* C11.  The history slot of level k is non-null only if an attempt at     *)
(* level k has been executed for the row: a slot changes only in a step of *)
(* the worker of level k that holds the row at retry_count k and whose     *)
(* SendWebhook has returned; so every slot above the row's retry_count is  *)
(* null, and a row completed at level 0 has only the level-0 slot          *)
(* populated.                                                              *)
C11_SlotsOnlyOfExecutedLevels ==
    [][\A r \in RowIds : \A k \in Levels :
          /\ rows'[r].retry[k] # rows[r].retry[k] =>
                \E w \in Holders(r) :
                    /\ worker[w].pc = "sent"
                    /\ sendCalls[r] > 0
                    /\ worker[w].webhook.RetryCount = k
                    /\ RetryLevel(w) = k
                    /\ rows[r].retry_count = k
          /\ k > rows'[r].retry_count => rows'[r].retry[k] = EmptySlot
          /\ (rows'[r].status = StatusCompleted /\ rows'[r].retry_count = 0 /\ k > 0)
                => rows'[r].retry[k] = EmptySlot]_vars

\* a row that is past level 0 with the attempts of level 0 and of its
\* present level on record
C11_Witness ==
    \E r \in RowIds :
        /\ rows[r].retry_count \in 1..(MaxRetryAttempts - 1)
        /\ rows[r].retry[0] # EmptySlot
        /\ rows[r].retry[rows[r].retry_count] # EmptySlot
        /\ \A k \in Levels : k > rows[r].retry_count => rows[r].retry[k] = EmptySlot

----------------------------------------------------------------------------
(* C12 as stated.  A row that is COMPLETED or FAILED at level k has every  *)
(* history slot 0..k populated.                                            *)
C12_TerminalHistoryComplete ==
    \A r \in RowIds :
        rows[r].status \in Terminal =>
            \A k \in 0..rows[r].retry_count : rows[r].retry[k] # EmptySlot

(* C12 as amended.  When a row leaves level k, by the reschedule to level  *)
(* k + 1 or by the write of COMPLETED or FAILED, slot k is populated       *)
(* provided the RecordAttempt of that attempt succeeded, and a populated   *)
(* slot never becomes null again; so a row that is terminal at level k has *)
(* every slot 0..k populated except those whose RecordAttempt failed (the  *)
(* failure is logged and dropped).                                         *)
C12_HistoryKeptWhenRecorded ==
    [][\A r \in RowIds :
          /\ \A k \in Levels :
                rows[r].retry[k] # EmptySlot => rows'[r].retry[k] # EmptySlot
          /\ (\/ rows'[r].retry_count > rows[r].retry_count
              \/ rows[r].status \notin Terminal /\ rows'[r].status \in Terminal) =>
                \E w \in Holders(r) :
                    ~worker[w].updateErr =>
                        rows'[r].retry[rows[r].retry_count] # EmptySlot]_vars

\* a row that went through every level and is terminal with all seven
\* slots populated
C12_Witness ==
    \E r \in RowIds :
        /\ rows[r].status \in Terminal
        /\ rows[r].retry_count = MaxRetryAttempts
        /\ \A k \in Levels : rows[r].retry[k] # EmptySlot

----------------------------------------------------------------------------
(* The claim phase on its own: rows arrive over a few seconds, the pool is *)
(* started and every worker's tick runs GetNextWebhookForProcessing; what  *)
(* the workers do with the rows they claimed is left out, so that the      *)
(* outcome of one tick window of concurrent claims can be observed.        *)

\* rows the intake inserts in one burst
BurstRows == 3
\* seconds over which the burst arrives
BurstClock == 3

InsertBurst == CreateWebhookEntry(BurstRows)

\* a second passes
Tick ==
    /\ now < BurstClock
    /\ now' = now + 1
    /\ UNCHANGED <<rows, sendCalls, worker, pool, faults>>

ClaimStep(w) == ClaimSelect(w) \/ ClaimCommit(w)

NextBurst ==
    \/ InsertBurst
    \/ Tick
    \/ PoolStart
    \/ \E w \in Workers : ClaimStep(w)

\* every worker's ticker keeps firing and every database call returns
BurstSpec ==
    /\ Init
    /\ [][NextBurst]_vars
    /\ \A w \in Workers : WF_vars(ClaimStep(w))


\* the workers of a level
LevelWorkers(k) == {w \in Workers : RetryLevel(w) = k}

\* the rows a claim of level k at time t may take: eligible and not locked
\* by another claim
FreeEligible(k, t) == {r \in RowIds : Eligible(rows[r], k, t) /\ r \notin LockedRows}

(* C13.  When the N workers of level 0 claim concurrently and at least N   *)
(* eligible rows exist, exactly N distinct rows become PROCESSING: no row  *)
(* has two claimants, a claim finds no row only when no eligible row is    *)
(* left that another claim has not locked, and the claims end with every   *)
(* level-0 worker holding a row of its own and exactly those N rows        *)
(* PROCESSING.                                                             *)
C13_ConcurrentClaimsTakeDistinctRows ==
    /\ [](\A r \in RowIds : Cardinality(Claimants(r)) <= 1)
    /\ [](\A k \in Levels :
             ClaimCandidates(k, now) = {} <=> FreeEligible(k, now) = {})
    /\ [](Cardinality({r \in RowIds : rows[r].status = StatusProcessing})
              <= Cardinality(LevelWorkers(0)))
    /\ (pool = "running" /\ Len(rows) >= Cardinality(LevelWorkers(0)))
          ~> /\ \A w \in LevelWorkers(0) : worker[w].pc = "claimed"
             /\ \A w, v \in LevelWorkers(0) :
                   w # v => worker[w].webhook.ID # worker[v].webhook.ID
             /\ {r \in RowIds : rows[r].status = StatusProcessing}
                   = {worker[w].webhook.ID : w \in LevelWorkers(0)}

\* the three level-0 workers hold three different rows, all PROCESSING,
\* one of them claimed again after a failed claim
C13_Witness ==
    /\ \A w \in LevelWorkers(0) : worker[w].pc = "claimed"
    /\ Cardinality({worker[w].webhook.ID : w \in LevelWorkers(0)}) = Level0Workers
    /\ \A w \in LevelWorkers(0) : rows[worker[w].webhook.ID].status = StatusProcessing
    /\ faults > 0

----------------------------------------------------------------------------
(* C14.  GetNextWebhookForProcessing for level k returns and changes a row *)
(* only if the row was PENDING with retry_count k and next_retry_at not    *)
(* after the claim's instant: a PENDING row changes only by the commit of  *)
(* a claim that selected it as eligible, which writes status and           *)
(* updated_at and returns the row as written; so a row whose next_retry_at *)
(* is in the future stays PENDING with its slots as they are, and a claim  *)
(* that finds no eligible row changes no row.                              *)
C14_ClaimOnlyEligible ==
    [][\A r \in RowIds :
          /\ (rows[r].status = StatusPending /\ rows'[r] # rows[r]) =>
                \E w \in Workers :
                    /\ Locks(w, r)
                    /\ rows[r].status = StatusPending
                    /\ rows[r].retry_count = RetryLevel(w)
                    /\ rows[r].next_retry_at <= worker[w].claimNow
                    /\ worker[w].claimNow <= now
                    /\ rows'[r] = [rows[r] EXCEPT !.status = StatusProcessing,
                                                  !.updated_at = worker[w].claimNow]
          /\ \A w \in Workers :
                (~Holds(w, r) /\ Holds(w, r)') =>
                    /\ Locks(w, r)
                    /\ rows[r].status = StatusPending
                    /\ rows[r].retry_count = RetryLevel(w)
                    /\ rows[r].next_retry_at <= worker[w].claimNow
                    /\ worker'[w].webhook = modelToEntity(rows'[r])
                    /\ \A q \in RowIds \ {r} : rows'[q] = rows[q]
          /\ (rows[r].status = StatusPending /\ rows[r].next_retry_at > now) =>
                rows'[r] = rows[r]
          /\ \A w \in Workers :
                (worker[w].pc = "select" /\ FreeEligible(RetryLevel(w), now) = {}) =>
                    \/ worker'[w].pc = "select" /\ worker'[w].webhook = NoWebhook
                    \/ worker'[w].pc = "none"]_vars

\* a row waits at level 3 for its next_retry_at while the pool runs and the
\* worker of level 3 polls
C14_Witness ==
    \E r \in RowIds : \E w \in Workers :
        /\ rows[r].status = StatusPending
        /\ rows[r].retry_count = 3
        /\ rows[r].next_retry_at > now
        /\ rows[r].retry[3] = EmptySlot
        /\ RetryLevel(w) = 3
        /\ worker[w].pc = "select"
        /\ ~worker[w].ctxDone
        /\ pool = "running"

----------------------------------------------------------------------------
(* C15.  Among the rows that are eligible for level k and not locked by    *)
(* another claim, GetNextWebhookForProcessing takes one with the smallest  *)
(* next_retry_at (rows with equal next_retry_at in any order).             *)
C15_OldestDueFirst ==
    [][\A w \in Workers :
          (worker[w].pc = "select" /\ worker'[w].pc = "locked") =>
              LET r == worker'[w].rowId
              IN  /\ r \in RowIds
                  /\ rows[r].status = StatusPending
                  /\ rows[r].retry_count = RetryLevel(w)
                  /\ rows[r].next_retry_at <= now
                  /\ \A v \in Workers : ~Locks(v, r)
                  /\ \A q \in RowIds :
                        (/\ rows[q].status = StatusPending
                         /\ rows[q].retry_count = RetryLevel(w)
                         /\ rows[q].next_retry_at <= now
                         /\ \A v \in Workers : ~Locks(v, q))
                            => rows[r].next_retry_at <= rows[q].next_retry_at]_vars

\* a claim has taken a row while a row that became due later, but before
\* the claim, was eligible and not locked
C15_Witness ==
    \E w \in Workers : \E r, q \in RowIds :
        /\ Locks(w, r)
        /\ faults = 0
        /\ rows[q].status = StatusPending
        /\ rows[q].retry_count = RetryLevel(w)
        /\ \A v \in Workers : ~Locks(v, q)
        /\ rows[r].next_retry_at < rows[q].next_retry_at
        /\ rows[q].next_retry_at < worker[w].claimNow

----------------------------------------------------------------------------
(* C16.  A GetNextWebhookForProcessing that fails, at the begin or select  *)
(* or at the status update or commit, returns no row and changes no row:   *)
(* the worker is back in its loop without a webhook, SendWebhook and       *)
(* ResetWebhookToPending are not called, and the row the failed claim had  *)
(* selected is PENDING, unlocked and still eligible for the worker's level,*)
(* so a later tick can claim it.                                           *)
C16_FailedClaimChangesNothing ==
    [][/\ (faults' # faults /\ worker' = worker) =>
              /\ rows' = rows
              /\ sendCalls' = sendCalls
       /\ \A w \in Workers : \A r \in RowIds :
              (Locks(w, r) /\ worker'[w].pc = "select") =>
                  /\ rows' = rows
                  /\ sendCalls' = sendCalls
                  /\ worker'[w].webhook = NoWebhook
                  /\ rows'[r].status = StatusPending
                  /\ rows'[r].retry_count = RetryLevel(w)
                  /\ rows'[r].next_retry_at <= now'
                  /\ \A v \in Workers : ~(worker'[v].pc = "locked" /\ worker'[v].rowId = r)
                  /\ \A v \in Workers : ~(Holds(v, r))']_vars

\* claims have failed while the pool runs, and the row, never sent, is
\* PENDING and eligible with every worker back in its loop
C16_Witness ==
    \E r \in RowIds :
        /\ faults > 0
        /\ sendCalls[r] = 0
        /\ rows[r].status = StatusPending
        /\ rows[r].next_retry_at <= now
        /\ pool = "running"
        /\ \A w \in Workers : worker[w].pc = "select" /\ ~worker[w].ctxDone

----------------------------------------------------------------------------
(* C17.  A failed RecordAttempt does not make ProcessWebhook return an     *)
(* error: after UpdateRetryAttempt, failed or not, the worker goes on to   *)
(* the state transition, and after a failed one it makes exactly the       *)
(* transition the attempt's outcome dictates (COMPLETED after a 2xx        *)
(* without error, the reschedule to the next level while retry_count < 6,  *)
(* FAILED at level 6); it goes to its reset only when the write of that    *)
(* transition itself fails.                                                *)
C17_RecordFailureIsSwallowed ==
    [][\A w \in Workers :
          /\ worker[w].pc = "sent" => worker'[w].pc \in {"sent", "recorded"}
          /\ (worker[w].pc = "recorded" /\ worker[w].updateErr
                  /\ worker'[w].pc # "recorded") =>
                LET r == worker[w].webhook.ID
                    level == worker[w].webhook.RetryCount
                    success == /\ worker[w].resp.err = EmptyStr
                               /\ worker[w].resp.StatusCode \in 200..299
                IN  \/ /\ worker'[w].pc = "reset"
                       /\ rows' = rows
                       /\ worker[w].ctxDone \/ faults' = faults + 1
                    \/ /\ worker'[w].pc = "select"
                       /\ faults' = faults
                       /\ IF success
                          THEN /\ rows'[r].status = StatusCompleted
                               /\ rows'[r].retry_count = level
                          ELSE IF level < MaxRetryAttempts
                          THEN /\ rows'[r].status = StatusPending
                               /\ rows'[r].retry_count = level + 1
                               /\ rows'[r].next_retry_at > now
                          ELSE /\ rows'[r].status = StatusFailed
                               /\ rows'[r].retry_count = level]_vars

\* a row was completed although the record of its last attempt was lost
C17_Witness ==
    \E r \in RowIds :
        /\ rows[r].status = StatusCompleted
        /\ sendCalls[r] > 0
        /\ rows[r].retry[rows[r].retry_count] = EmptySlot
        /\ rows[r].last_http_status = 0

----------------------------------------------------------------------------
(* C18.  When the write of MarkCompleted, of the reschedule or of          *)
(* MarkFailed fails, ProcessWebhook returns the error and the worker calls *)
(* ResetWebhookToPending for the row it claimed; when the reset's write    *)
(* succeeds the row is PENDING at a level of the roster, held and locked   *)
(* by no worker, so that it can be claimed again, and when it fails the    *)
(* row is left as it was.                                                  *)
C18_FailedTransitionIsReset ==
    [][\A w \in Workers :
          /\ (/\ worker[w].pc = "recorded"
              /\ worker'[w].pc # "recorded"
              /\ worker[w].ctxDone \/ faults' = faults + 1) =>
                /\ worker'[w].pc = "reset"
                /\ worker'[w].webhook.ID = worker[w].webhook.ID
                /\ rows' = rows
          /\ (worker[w].pc = "reset" /\ worker'[w].pc # "reset") =>
                LET r == worker[w].webhook.ID
                IN  /\ worker'[w].pc = "select"
                    /\ (~worker[w].ctxDone /\ faults' = faults) =>
                          /\ rows'[r].status = StatusPending
                          /\ LevelWorkers(rows'[r].retry_count) # {}
                          /\ \A v \in Workers : ~(Holds(v, r) \/ Locks(v, r))'
                          /\ \A t \in {now, rows'[r].next_retry_at} :
                                t >= rows'[r].next_retry_at =>
                                    Eligible(rows'[r], rows'[r].retry_count, t)
                    /\ (worker[w].ctxDone \/ faults' = faults + 1) => rows' = rows]_vars

\* a row has been sent twice at level 0: its MarkCompleted failed, the reset
\* put it back and it was claimed again
C18_Witness ==
    \E r \in RowIds :
        /\ rows[r].retry_count = 0
        /\ sendCalls[r] >= 2
        /\ faults > 0

----------------------------------------------------------------------------
----------------------------------------------------------------------------
(* C20.  A transport error or a response outside [200, 300) never makes    *)
(* ProcessWebhook return an error when the storage writes succeed: the     *)
(* worker goes from the send to the record and, the write of the           *)
(* transition succeeding, back to its loop without a reset; the row is     *)
(* rescheduled to the next level while its retry_count is below 6 and      *)
(* FAILED at level 6, and the failure is on record in the slot of the      *)
(* attempt's level when RecordAttempt succeeded.                           *)
C20_AttemptFailureDrivesStateMachine ==
    [][\A w \in Workers :
          /\ worker[w].pc = "sending" => worker'[w].pc \in {"sending", "sent"}
          /\ (/\ worker[w].pc = "recorded"
              /\ worker'[w].pc # "recorded"
              /\ \/ worker[w].resp.err # EmptyStr
                 \/ worker[w].resp.StatusCode \notin 200..299
              /\ ~worker[w].ctxDone
              /\ faults' = faults) =>
                LET r == worker[w].webhook.ID
                    level == worker[w].webhook.RetryCount
                IN  /\ worker'[w].pc = "select"
                    /\ IF level < MaxRetryAttempts
                       THEN /\ rows'[r].status = StatusPending
                            /\ rows'[r].retry_count = level + 1
                            /\ rows'[r].next_retry_at > now
                       ELSE /\ rows'[r].status = StatusFailed
                            /\ rows'[r].retry_count = level
                            /\ rows'[r].last_error # EmptyStr
                    /\ ~worker[w].updateErr =>
                          /\ rows'[r].retry[level].http_status
                                = Ptr(worker[w].resp.StatusCode)
                          /\ rows'[r].retry[level].error # Nil
                          /\ rows'[r].retry[level].error # Ptr(EmptyStr)]_vars

\* the first attempt ended in a transport error, which is on record, and
\* the row waits at level 1
C20_Witness ==
    \E r \in RowIds :
        /\ rows[r].status = StatusPending
        /\ rows[r].retry_count = 1
        /\ sendCalls[r] = 1
        /\ faults = 1
        /\ rows[r].retry[0].http_status = Ptr(0)
        /\ rows[r].retry[0].error # Nil

----------------------------------------------------------------------------
(* C21.  After any failed attempt at level k < 6 the row is persisted as   *)
(* PENDING with retry_count k + 1 and a next_retry_at later than the       *)
(* attempt, so that the attempts on one row are sequential: when the       *)
(* worker that made the failed attempt lets go of the row, the row is      *)
(* PENDING at level k + 1 and due after the attempt; a row is claimed only *)
(* when it is PENDING and due, and SendWebhook is called for it only when  *)
(* its next_retry_at has been reached.                                     *)
C21_FailedAttemptIsRescheduled ==
    [][\A r \in RowIds : \A w \in Workers :
          /\ (/\ Holds(w, r)
              /\ ~Holds(w, r)'
              /\ worker[w].pc \in {"recorded", "reset"}
              /\ \/ worker[w].resp.err # EmptyStr
                 \/ worker[w].resp.StatusCode \notin 200..299
              /\ rows[r].retry_count < MaxRetryAttempts) =>
                /\ rows'[r].status = StatusPending
                /\ rows'[r].retry_count = rows[r].retry_count + 1
                /\ rows'[r].next_retry_at > worker[w].attemptStartTime
          /\ (~Holds(w, r) /\ Holds(w, r)') =>
                /\ rows[r].status = StatusPending
                /\ rows[r].next_retry_at <= now
          /\ sendCalls'[r] > sendCalls[r] =>
                /\ rows[r].status = StatusProcessing
                /\ rows[r].next_retry_at <= now]_vars

----------------------------------------------------------------------------
(* The backoff on its own: a row at any level below 6 is held by the       *)
(* worker of its level after an attempt that failed and was recorded, and  *)
(* the reschedule draws its jitter from a fine grid.                       *)

\* values of rand.Float64() tried for one reschedule
BackoffJitterSteps == 8

\* the row with the given id after failed attempts at the levels below k,
\* each answered 503, waiting at level k since t
RECURSIVE RowAtLevel(_, _, _)
RowAtLevel(id, k, t) ==
    IF k = 0 THEN NewRow(id, t)
    ELSE LET resp == RespOK(503, <<"busy">>)
             m == UpdateRetryAttempt(ClaimUpdate(RowAtLevel(id, k - 1, t), t), k - 1,
                      t, Ptr(t), 0, resp.StatusCode, resp.Body, AttemptErrorMsg(resp), t)
             u == [modelToEntity(m) EXCEPT !.RetryCount = k, !.NextRetryAt = t,
                                           !.Status = StatusPending, !.UpdatedAt = t]
         IN  Update(m, u, t)

\* the worker right after RecordAttempt for the row m it claimed at t
WorkerAfterAttempt(m, resp, t) ==
    [IdleWorker("recorded", FALSE) EXCEPT
        !.rowId = m.id, !.claimNow = t, !.attemptStartTime = t, !.attemptEndTime = t,
        !.resp = resp, !.errorMsg = AttemptErrorMsg(resp),
        !.webhook = [modelToEntity(m) EXCEPT
                        !.LastHTTPStatus = resp.StatusCode,
                        !.LastError = AttemptErrorMsg(resp)]]

InitBackoff ==
    \E k \in 0..(MaxRetryAttempts - 1) :
    \E resp \in {RespOK(503, <<"busy">>)} \cup HTTPFailures :
        LET claimed == ClaimUpdate(RowAtLevel(1, k, 1), 1)
            m == UpdateRetryAttempt(claimed, k, 1, Ptr(1), 0, resp.StatusCode,
                                    resp.Body, AttemptErrorMsg(resp), 1)
            holder == CHOOSE w \in Workers : RetryLevel(w) = k
        IN  /\ rows = <<m>>
            /\ sendCalls = <<k + 1>>
            /\ worker = [w \in Workers |->
                            IF w = holder THEN WorkerAfterAttempt(claimed, resp, 1)
                            ELSE IdleWorker("select", FALSE)]
            /\ pool = "running"
            /\ now = 1
            /\ faults = 0

NextBackoff == \E w \in Workers : RescheduleDrawing(w, BackoffJitterSteps)

BackoffSpec == InitBackoff /\ [][NextBackoff]_vars

----------------------------------------------------------------------------
(* C23.  An attempt is a success if and only if SendWebhook returned no    *)
(* error and a status code with 200 <= code < 300: the code test holds for *)
(* exactly the codes 200..299, the attempt is taken as succeeded, and      *)
(* its error text left empty, exactly in that case, and the worker makes   *)
(* the row COMPLETED only then and, its write succeeding, always then; a   *)
(* 2xx that comes with an error (a body that could not be read) is a       *)
(* failure.                                                                *)
C23_SuccessIffNoErrorAnd2xx ==
    [][/\ \A code \in 100..599 :
              isSuccessfulResponse(code) <=> (200 <= code /\ code < 300)
       /\ \A w \in Workers :
              (worker[w].pc = "recorded" /\ worker'[w].pc # "recorded") =>
                  LET r == worker[w].webhook.ID
                      success == /\ worker[w].resp.err = EmptyStr
                                 /\ 200 <= worker[w].resp.StatusCode
                                 /\ worker[w].resp.StatusCode < 300
                  IN  /\ AttemptSucceeded(worker[w].resp) <=> success
                      /\ worker[w].errorMsg = EmptyStr <=> success
                      /\ rows'[r].status = StatusCompleted => success
                      /\ (success /\ ~worker[w].ctxDone /\ faults' = faults) =>
                            rows'[r].status = StatusCompleted]_vars

\* a 200 whose body could not be read was recorded as a failure and the
\* row rescheduled
C23_Witness ==
    \E r \in RowIds :
        /\ rows[r].status = StatusPending
        /\ rows[r].retry_count = 1
        /\ rows[r].retry[0].http_status = Ptr(200)
        /\ rows[r].retry[0].error # Nil

----------------------------------------------------------------------------
(* C24.  A failed attempt at level 6 marks the row FAILED with a           *)
(* last_error that begins with "max retries exceeded", followed by the     *)
(* error returned by SendWebhook or, without one, by "HTTP <code>" of that *)
(* final attempt: when the worker that made the failed attempt at level 6  *)
(* lets go of the row, the row is FAILED with that last_error.             *)
C24_LastAttemptFailureMarksFailed ==
    [][\A r \in RowIds : \A w \in Workers :
          (/\ Holds(w, r)
           /\ ~Holds(w, r)'
           /\ worker[w].pc \in {"recorded", "reset"}
           /\ rows[r].retry_count = MaxRetryAttempts
           /\ \/ worker[w].resp.err # EmptyStr
              \/ worker[w].resp.StatusCode \notin 200..299) =>
              /\ rows'[r].status = StatusFailed
              /\ rows'[r].last_error =
                    <<"max retries exceeded", ": ">> \o
                        (IF worker[w].resp.err # EmptyStr THEN worker[w].resp.err
                         ELSE <<"HTTP ", CodeStr(worker[w].resp.StatusCode)>>)]_vars

----------------------------------------------------------------------------
(* The merge update on its own: the repository's Update is called with an  *)
(* entity whose fields are, each by itself, zero-valued or not, for a row  *)
(* that is fresh or has been through three levels.                         *)

PersistedRows == {NewRow(1, 1), RowAtLevel(1, 3, 1)}

UpdateInputs ==
    [ID : {1},
     QueueID : {NilUUID, NewQueueID(9)},
     EventType : {"", EventTypeDebit},
     EventID : {EmptyStr, <<"other event">>},
     ConfigID : {0, 2},
     WebhookURL : {EmptyStr, <<"https://other.example.com/webhook">>},
     Status : {"", StatusPending},
     RetryCount : {0, 5},
     NextRetryAt : {ZeroTime, 7},
     LastError : {EmptyStr, <<"connection timeout">>},
     LastHTTPStatus : {0, 500},
     UpdatedAt : {ZeroTime, 2},
     ProcessingStartedAt : {Nil, Ptr(2)},
     CompletedAt : {Nil, Ptr(2)},
     DeletedAt : {Nil, Ptr(2)}]

InitMerge ==
    \E p \in PersistedRows : \E u \in UpdateInputs :
        /\ rows = <<p>>
        /\ sendCalls = <<0>>
        /\ worker = [w \in Workers |->
                        IF w = 1 THEN [IdleWorker("update", FALSE) EXCEPT !.webhook = u]
                        ELSE IdleWorker("none", FALSE)]
        /\ pool = "stopped"
        /\ now = 2
        /\ faults = 0

\* Update(ctx, webhook): read the row, merge, save
UpdateCall(w) ==
    /\ worker[w].pc = "update"
    /\ \E ok \in CallOutcomes(w) :
        /\ CountFault(w, ok)
        /\ rows' = IF ok
                   THEN [rows EXCEPT ![worker[w].webhook.ID] =
                           Update(@, worker[w].webhook, now)]
                   ELSE rows
    /\ worker' = [worker EXCEPT ![w].pc = "none"]
    /\ UNCHANGED <<sendCalls, pool, now>>

NextMerge == \E w \in Workers : UpdateCall(w)

MergeSpec == InitMerge /\ [][NextMerge]_vars

----------------------------------------------------------------------------
(* C26.  RecordAttempt with an empty error message leaves last_error as it *)
(* is and no write of the success path clears it: last_error changes only  *)
(* to the error text of the holder's failed attempt (at the last level,    *)
(* behind "max retries exceeded"), and a row that moves up a level carries *)
(* the text of the attempt that failed; so a row that completes after at   *)
(* least one failed attempt still carries the last failure's text, and a   *)
(* row that succeeds on its first attempt has an empty last_error.         *)
C26_LastErrorSurvivesSuccess ==
    [][\A r \in RowIds :
          /\ rows'[r].last_error # rows[r].last_error =>
                \E w \in Holders(r) :
                    /\ worker[w].errorMsg # EmptyStr
                    /\ \/ rows'[r].last_error = worker[w].errorMsg
                       \/ /\ rows'[r].status = StatusFailed
                          /\ rows'[r].last_error = FinalErrorMsg(worker[w].resp)
          /\ rows'[r].retry_count > rows[r].retry_count =>
                \E w \in Holders(r) :
                    /\ worker[w].errorMsg # EmptyStr
                    /\ rows'[r].last_error = worker[w].errorMsg
          /\ (rows[r].status # StatusCompleted /\ rows'[r].status = StatusCompleted) =>
                /\ rows'[r].last_error = rows[r].last_error
                /\ rows'[r].retry_count = 0 => rows'[r].last_error = EmptyStr
                /\ rows'[r].retry_count > 0 => rows'[r].last_error # EmptyStr]_vars

\* a row completed at a later level still shows the 503 of its last failure
C26_Witness ==
    \E r \in RowIds :
        /\ rows[r].status = StatusCompleted
        /\ rows[r].retry_count > 0
        /\ rows[r].last_http_status = 200
        /\ rows[r].last_error = <<"HTTP ", "503", ": ", "Service Unavailable">>

----------------------------------------------------------------------------
(* C27.  completed_at is set at the first transition into a terminal       *)
(* state: every COMPLETED or FAILED row has a non-null completed_at, and   *)
(* every PENDING or PROCESSING row has a null one.                         *)
C27_CompletedAtIffTerminal ==
    \A r \in RowIds :
        /\ rows[r].status \in Terminal => rows[r].completed_at # Nil
        /\ rows[r].status \in {StatusPending, StatusProcessing} =>
              rows[r].completed_at = Nil

----------------------------------------------------------------------------
(* Start and Stop in detail.  The pool is followed at the grain of its     *)
(* mutexes and wait groups: callers invoke Start and Stop concurrently,    *)
(* Start starts the roster's workers one after another, Stop spawns one    *)
(* goroutine per worker that cancels the worker and waits for its loop.    *)
(* Under this specification pool holds the WorkerPool and its workers'     *)
(* mutexes and running flags; worker holds each loop's position, "none"    *)
(* standing for a loop that is not running.  The pool is built over a      *)
(* roster of two entries, one worker of the first level and one of the     *)
(* last, and the table holds one row waiting at either level.              *)

\* goroutines calling Start and Stop concurrently
StopCallers == 2
Callers == 1..StopCallers

\* config.Workers of the pool under study
StopRoster == {1, NumWorkers}

ErrAlreadyRunning == <<"worker pool is already running">>
ErrNotRunning == <<"worker pool is not running">>

\* a caller outside of any call; err is what its last call returned
IdleCall(err) == [op |-> "none", pc |-> "idle", err |-> err]

NewWorkerPool ==
    [running |-> FALSE, mu |-> 0, workers |-> {},
     wrunning |-> {}, wmu |-> {},
     stopper |-> [w \in Workers |-> "none"],
     werr |-> [w \in Workers |-> EmptyStr],
     call |-> [c \in Callers |-> IdleCall(EmptyStr)]]

InitStop ==
    \E k \in {0, MaxRetryAttempts} :
        /\ rows = <<RowAtLevel(1, k, 1)>>
        /\ sendCalls = <<k>>
        /\ worker = [w \in Workers |-> IdleWorker("none", FALSE)]
        /\ pool = NewWorkerPool
        /\ now = 1
        /\ faults = 0

\* a goroutine calls Start or Stop and queues for the pool's mutex
Invoke(c, op) ==
    /\ pool.call[c].pc = "idle"
    /\ pool' = [pool EXCEPT !.call[c] = [op |-> op, pc |-> "lock", err |-> EmptyStr]]
    /\ UNCHANGED <<rows, sendCalls, worker, now, faults>>

\* Start does not test the running flag
StartLockRestarting(c) ==
    /\ pool.call[c].pc = "lock"
    /\ pool.call[c].op = "Start"
    /\ pool.mu = 0
    /\ pool' = [pool EXCEPT !.mu = c, !.call[c].pc = "starting"]
    /\ UNCHANGED <<rows, sendCalls, worker, now, faults>>

\* Start takes the mutex; on a running pool it returns the error at once
StartLock(c) ==
    /\ pool.call[c].pc = "lock"
    /\ pool.call[c].op = "Start"
    /\ pool.mu = 0
    /\ pool' = IF pool.running
               THEN [pool EXCEPT !.call[c] = IdleCall(ErrAlreadyRunning)]
               ELSE [pool EXCEPT !.mu = c, !.call[c].pc = "starting"]
    /\ UNCHANGED <<rows, sendCalls, worker, now, faults>>

\* Start puts the worker of the previous run back to work, cancelled context
\* and all, instead of building a new one
StartWorkerReusing(c) ==
    /\ pool.call[c].pc = "starting"
    /\ StopRoster \ pool.workers # {}
    /\ LET w == CHOOSE x \in StopRoster \ pool.workers :
                    \A y \in StopRoster \ pool.workers : x <= y
       IN  /\ worker' = [worker EXCEPT ![w] = IdleWorker("select", worker[w].ctxDone)]
           /\ pool' = [pool EXCEPT !.workers = @ \cup {w},
                                   !.wrunning = @ \cup {w}]
    /\ UNCHANGED <<rows, sendCalls, now, faults>>

\* one turn of Start's loop: NewWebhookWorker, worker.Start (running = true,
\* wg.Add(1), go processLoop), append.  A fresh worker is never running, so
\* worker.Start cannot fail.
StartWorker(c) ==
    /\ pool.call[c].pc = "starting"
    /\ StopRoster \ pool.workers # {}
    /\ LET w == CHOOSE x \in StopRoster \ pool.workers :
                    \A y \in StopRoster \ pool.workers : x <= y
       IN  /\ worker' = [worker EXCEPT ![w] = IdleWorker("select", FALSE)]
           /\ pool' = [pool EXCEPT !.workers = @ \cup {w},
                                   !.wrunning = @ \cup {w}]
    /\ UNCHANGED <<rows, sendCalls, now, faults>>

\* Start sets running and returns, releasing the mutex
StartReturn(c) ==
    /\ pool.call[c].pc = "starting"
    /\ pool.workers = StopRoster
    /\ pool' = [pool EXCEPT !.running = TRUE, !.mu = 0,
                            !.call[c] = IdleCall(EmptyStr)]
    /\ UNCHANGED <<rows, sendCalls, worker, now, faults>>

\* Stop takes the mutex; on a pool that is not running it returns the error
\* at once, otherwise stopWorkers spawns one goroutine per worker
StopLock(c) ==
    /\ pool.call[c].pc = "lock"
    /\ pool.call[c].op = "Stop"
    /\ pool.mu = 0
    /\ pool' = IF ~pool.running
               THEN [pool EXCEPT !.call[c] = IdleCall(ErrNotRunning)]
               ELSE [pool EXCEPT !.mu = c, !.call[c].pc = "stopping",
                                 !.stopper = [w \in Workers |->
                                     IF w \in pool.workers THEN "spawned" ELSE "none"]]
    /\ UNCHANGED <<rows, sendCalls, worker, now, faults>>

\* WebhookWorker.Stop waits for the loop without cancelling its context
WorkerStopNoCancel(w) ==
    /\ pool.stopper[w] = "spawned"
    /\ w \notin pool.wmu
    /\ pool' = [pool EXCEPT !.wmu = @ \cup {w}, !.stopper[w] = "waiting"]
    /\ UNCHANGED <<rows, sendCalls, worker, now, faults>>

\* WebhookWorker.Stop up to wg.Wait: the worker's mutex, the running test,
\* the cancel
WorkerStop(w) ==
    /\ pool.stopper[w] = "spawned"
    /\ w \notin pool.wmu
    /\ IF w \in pool.wrunning
       THEN /\ pool' = [pool EXCEPT !.wmu = @ \cup {w}, !.stopper[w] = "waiting"]
            /\ worker' = [worker EXCEPT ![w].ctxDone = TRUE]
       ELSE /\ pool' = [pool EXCEPT !.stopper[w] = "done"]
            /\ UNCHANGED worker
    /\ UNCHANGED <<rows, sendCalls, now, faults>>

\* processLoop is in its select, takes the Done case and returns: wg.Done
processLoopExit(w) ==
    /\ worker[w].pc = "select"
    /\ worker[w].ctxDone
    /\ worker' = [worker EXCEPT ![w] = IdleWorker("none", TRUE)]
    /\ UNCHANGED <<rows, sendCalls, pool, now, faults>>

\* WebhookWorker.Stop returns without waiting for the loop
WorkerStopReturnNoWait(w) ==
    /\ pool.stopper[w] = "waiting"
    /\ pool' = [pool EXCEPT !.wrunning = @ \ {w}, !.wmu = @ \ {w},
                            !.stopper[w] = "done"]
    /\ UNCHANGED <<rows, sendCalls, worker, now, faults>>

\* wg.Wait returns once the loop has exited; running = false, unlock
WorkerStopReturn(w) ==
    /\ pool.stopper[w] = "waiting"
    /\ worker[w].pc = "none"
    /\ pool' = [pool EXCEPT !.wrunning = @ \ {w}, !.wmu = @ \ {w},
                            !.stopper[w] = "done"]
    /\ UNCHANGED <<rows, sendCalls, worker, now, faults>>

\* stopWorkers' wg.Wait returns, the slice is cleared, Stop returns
StopReturn(c) ==
    /\ pool.call[c].pc = "stopping"
    /\ \A w \in pool.workers : pool.stopper[w] = "done"
    /\ pool' = [pool EXCEPT !.workers = {}, !.running = FALSE, !.mu = 0,
                            !.stopper = [w \in Workers |-> "none"],
                            !.call[c] = IdleCall(EmptyStr)]
    /\ UNCHANGED <<rows, sendCalls, worker, now, faults>>

CallStep(c) ==
    \/ StartLock(c)
    \/ StartWorker(c)
    \/ StartReturn(c)
    \/ StopLock(c)
    \/ StopReturn(c)

NextStop ==
    \/ AdvanceTime
    \/ \E c \in Callers : \E op \in {"Start", "Stop"} : Invoke(c, op)
    \/ \E c \in Callers : CallStep(c)
    \/ \E w \in Workers : WorkerStop(w)
    \/ \E w \in Workers : processLoopExit(w)
    \/ \E w \in Workers : WorkerStopReturn(w)
    \/ \E w \in Workers : WorkerStep(w)

\* every goroutine keeps being scheduled, every call a worker makes returns,
\* and sync.Mutex hands the lock to every waiter in the end
StopSpec ==
    /\ InitStop
    /\ [][NextStop]_vars
    /\ \A c \in Callers : SF_vars(StartLock(c)) /\ SF_vars(StopLock(c))
    /\ \A c \in Callers : WF_vars(StartWorker(c) \/ StartReturn(c) \/ StopReturn(c))
    /\ \A w \in Workers : WF_vars(WorkerStop(w) \/ WorkerStopReturn(w))
    /\ \A w \in Workers : WF_vars(processLoopExit(w))
    /\ \A w \in Workers : WF_vars(WorkerStep(w))

----------------------------------------------------------------------------
(* C28.  Stop cancels every worker and returns only after every worker     *)
(* loop has exited, an in-flight ProcessWebhook included; once Stop has    *)
(* returned no worker of the pool claims, sends or writes to a row: a loop *)
(* runs only for a worker on the pool's list, and only a worker with a     *)
(* running loop changes a row or sends.                                    *)
C28_StopReturnsAfterEveryLoopExited ==
    [][/\ \A c \in Callers :
             (pool.call[c].pc = "stopping" /\ pool'.call[c].pc = "idle") =>
                 /\ pool.workers = StopRoster
                 /\ \A w \in pool.workers : worker[w].ctxDone /\ worker[w].pc = "none"
                 /\ pool'.workers = {}
       /\ \A w \in Workers : worker'[w].pc # "none" => w \in pool'.workers
       /\ \A r \in RowIds :
             (rows'[r] # rows[r] \/ sendCalls'[r] # sendCalls[r]) =>
                 \E w \in pool.workers : Holds(w, r) \/ Locks(w, r)
       /\ \A w \in Workers :
             (worker'[w].pc # worker[w].pc /\ worker'[w].pc \notin {"none", "select"}) =>
                 w \in pool.workers]_vars

\* Stop has returned while a delivery was in flight: the loops are gone, the
\* row they left is still PROCESSING
C28_Witness ==
    /\ ~pool.running
    /\ pool.mu = 0
    /\ pool.workers = {}
    /\ \E w \in StopRoster : worker[w].ctxDone /\ worker[w].pc = "none"
    /\ rows[1].status = StatusProcessing
    /\ sendCalls[1] \in {1, MaxRetryAttempts + 1}

----------------------------------------------------------------------------
(* C29.  A call of Stop always returns, given that every Send and every    *)
(* database call returns: the pool mutex, the worker mutexes, the wait     *)
(* groups and the loops never block one another for good, under any        *)
(* interleaving with ticks and with concurrent calls of Start and Stop.    *)
C29_StopAlwaysReturns ==
    \A c \in Callers :
        (pool.call[c].op = "Stop" /\ pool.call[c].pc # "idle") ~>
            (pool.call[c].pc = "idle")

\* Stop is waiting for a worker that is inside SendWebhook while the other
\* caller queues for the pool's mutex
C29_Witness ==
    \E c, d \in Callers :
        /\ pool.call[c].op = "Stop"
        /\ pool.call[c].pc = "stopping"
        /\ pool.call[d].pc = "lock"
        /\ \E w \in StopRoster : worker[w].pc = "sending" /\ pool.stopper[w] = "waiting"

----------------------------------------------------------------------------
(* C30.  Start on a running pool returns "worker pool is already running"  *)
(* and leaves the pool and its workers as they are; Stop on a pool that is *)
(* not running returns "worker pool is not running" and changes nothing;   *)
(* no other call returns an error.                                         *)
C30_GuardedStartAndStop ==
    [][\A c \in Callers :
          (pool.call[c].pc = "lock" /\ pool'.call[c] # pool.call[c]) =>
              /\ (pool.call[c].op = "Start" /\ pool.running) =>
                    /\ pool' = [pool EXCEPT !.call[c] = IdleCall(ErrAlreadyRunning)]
                    /\ UNCHANGED <<rows, sendCalls, worker, now, faults>>
              /\ (pool.call[c].op = "Stop" /\ ~pool.running) =>
                    /\ pool' = [pool EXCEPT !.call[c] = IdleCall(ErrNotRunning)]
                    /\ UNCHANGED <<rows, sendCalls, worker, now, faults>>
              /\ (pool.call[c].op = "Start" /\ ~pool.running) =>
                    pool'.call[c].pc = "starting"
              /\ (pool.call[c].op = "Stop" /\ pool.running) =>
                    pool'.call[c].pc = "stopping"]_vars

\* one caller's Start was refused on the running pool whose worker is inside
\* a delivery, the other's Stop was refused before on the stopped pool
C30_Witness ==
    \E c, d \in Callers :
        /\ pool.call[c] = IdleCall(ErrAlreadyRunning)
        /\ pool.call[d] = IdleCall(ErrNotRunning)
        /\ pool.running
        /\ pool.workers = StopRoster
        /\ \E w \in StopRoster : worker[w].pc = "sending" /\ ~worker[w].ctxDone

----------------------------------------------------------------------------
(* C31.  Stop followed by Start brings the pool back to its initial        *)
(* working state: whatever came before, a Start that returns leaves the    *)
(* pool running with exactly one worker per roster entry, no mutex held    *)
(* and no stopper left, as after the first Start; and every worker it      *)
(* starts is a fresh one, in its select on a live context with nothing in  *)
(* hand, so it polls and processes like a worker of the first Start.       *)
C31_StartAfterStopIsFresh ==
    [][\A c \in Callers :
          /\ (pool.call[c].pc = "starting" /\ pool'.call[c].pc = "idle") =>
                /\ pool' = [NewWorkerPool EXCEPT !.running = TRUE,
                                                 !.workers = StopRoster,
                                                 !.wrunning = StopRoster,
                                                 !.call = pool'.call]
                /\ pool'.call[c] = IdleCall(EmptyStr)
                /\ \A w \in StopRoster : worker[w].pc # "none" /\ ~worker[w].ctxDone
          /\ pool.call[c].pc = "starting" =>
                \A w \in Workers :
                    (w \in pool'.workers /\ w \notin pool.workers) =>
                        worker'[w] = IdleWorker("select", FALSE)]_vars

\* the pool runs again after a Stop that stranded a delivery: no write has
\* failed on a live context, yet the row is PROCESSING in nobody's hands
C31_Witness ==
    /\ pool.running
    /\ pool.mu = 0
    /\ pool.workers = StopRoster
    /\ faults = 0
    /\ rows[1].status = StatusProcessing
    /\ \A w \in StopRoster : worker[w] = IdleWorker("select", FALSE)

----------------------------------------------------------------------------
(* Deliveries side by side.  Three rows are waiting, two at the first      *)
(* level and one at the last, and the pool runs two workers of the first   *)
(* level and the worker of the last, so that several claims and several    *)
(* Send calls are under way at once.                                       *)

\* the workers whose loops are followed
FlightWorkers == {1, 2, NumWorkers}

InitFlight ==
    /\ rows = <<NewRow(1, 1), NewRow(2, 1), RowAtLevel(3, MaxRetryAttempts, 1)>>
    /\ sendCalls = <<0, 0, MaxRetryAttempts>>
    /\ worker = [w \in Workers |->
                    IdleWorker(IF w \in FlightWorkers THEN "select" ELSE "none", FALSE)]
    /\ pool = "running"
    /\ now = 1
    /\ faults = 0

NextFlight == \E w \in FlightWorkers : WorkerStep(w)

FlightSpec == InitFlight /\ [][NextFlight]_vars


----------------------------------------------------------------------------
(* Intake.  The application service validates the command and calls        *)
(* CreateWebhookEntry, which looks the configuration up and creates the    *)
(* row.  Under this specification pool holds the table of configurations   *)
(* and the last command with what the service returned for it.             *)

\* rows the intake is followed for
IntakeRows == 3

\* webhook_configs: the active configuration of the rows above, an inactive
\* one, and no third
InactiveConfigID == 2
MissingConfigID == 3
WebhookConfigs ==
    (ConfigID :> [IsActive |-> TRUE, WebhookURL |-> ConfigWebhookURL]) @@
    (InactiveConfigID :> [IsActive |-> FALSE,
                          WebhookURL |-> <<"https://inactive.example.com/webhook">>])

\* EventType.IsValid
IsValid(e) == e \in {EventTypeCredit, EventTypeDebit}

\* commands the intake receives
CreateWebhookCommands ==
    [EventType : {EventTypeCredit, EventTypeDebit, "REFUND", ""},
     EventID : {EventID},
     ConfigID : {ConfigID, InactiveConfigID, MissingConfigID}]

\* what CreateWebhook returns for cmd when the lookup and the insert go
\* through (true) or fail in the database (false)
CreateWebhookError(cmd, lookupOk, createOk) ==
    IF ~IsValid(cmd.EventType) THEN <<"invalid event type: ", cmd.EventType>>
    ELSE IF ~lookupOk THEN <<"failed to get webhook config">>
    ELSE IF cmd.ConfigID \notin DOMAIN pool.configs
         THEN <<"webhook config not found: ", cmd.ConfigID>>
    ELSE IF ~pool.configs[cmd.ConfigID].IsActive
         THEN <<"webhook config is not active: ", cmd.ConfigID>>
    ELSE IF ~createOk THEN <<"failed to create webhook queue entry">>
    ELSE EmptyStr

InitIntake ==
    /\ rows = <<>>
    /\ sendCalls = <<>>
    /\ worker = [w \in Workers |-> IdleWorker("none", FALSE)]
    /\ pool = [configs |-> WebhookConfigs,
               cmd |-> [EventType |-> "", EventID |-> EmptyStr, ConfigID |-> 0],
               lookupOk |-> TRUE, createOk |-> TRUE, err |-> EmptyStr]
    /\ now = 1
    /\ faults = 0

\* the inactive configuration is inserted all the same
CreateWebhookIgnoringActive(cmd, lookupOk, createOk) ==
    LET err == IF ~IsValid(cmd.EventType) THEN <<"invalid event type: ", cmd.EventType>>
               ELSE IF ~lookupOk THEN <<"failed to get webhook config">>
               ELSE IF cmd.ConfigID \notin DOMAIN pool.configs
                    THEN <<"webhook config not found: ", cmd.ConfigID>>
               ELSE IF ~createOk THEN <<"failed to create webhook queue entry">>
               ELSE EmptyStr
    IN  /\ Len(rows) < IntakeRows
        /\ pool' = [pool EXCEPT !.cmd = cmd, !.lookupOk = lookupOk,
                                !.createOk = createOk, !.err = err]
        /\ IF err = EmptyStr
           THEN /\ rows' = Append(rows, QueueRow(Len(rows) + 1, cmd.EventType, cmd.EventID,
                               cmd.ConfigID, pool.configs[cmd.ConfigID].WebhookURL, now))
                /\ sendCalls' = Append(sendCalls, 0)
           ELSE UNCHANGED <<rows, sendCalls>>
        /\ UNCHANGED <<worker, now, faults>>

\* CreateWebhook: Validate, then CreateWebhookEntry (GetByID, the nil and
\* IsActive tests, Create)
CreateWebhook(cmd, lookupOk, createOk) ==
    LET err == CreateWebhookError(cmd, lookupOk, createOk)
    IN  /\ Len(rows) < IntakeRows
        /\ pool' = [pool EXCEPT !.cmd = cmd, !.lookupOk = lookupOk,
                                !.createOk = createOk, !.err = err]
        /\ IF err = EmptyStr
           THEN /\ rows' = Append(rows, QueueRow(Len(rows) + 1, cmd.EventType, cmd.EventID,
                               cmd.ConfigID, pool.configs[cmd.ConfigID].WebhookURL, now))
                /\ sendCalls' = Append(sendCalls, 0)
           ELSE UNCHANGED <<rows, sendCalls>>
        /\ UNCHANGED <<worker, now, faults>>

NextIntake ==
    \/ Tick
    \/ \E cmd \in CreateWebhookCommands : \E lookupOk, createOk \in BOOLEAN :
           CreateWebhook(cmd, lookupOk, createOk)

IntakeSpec == InitIntake /\ [][NextIntake]_vars

(* C33.  Intake inserts exactly one row, PENDING at retry_count 0 with     *)
(* next_retry_at = now and the configuration's URL copied onto it, when    *)
(* config_id resolves to an active configuration and the event type is     *)
(* CREDIT or DEBIT (and the database calls go through); it inserts no row  *)
(* and returns an error when the configuration is missing, inactive or     *)
(* cannot be looked up, or the event type is invalid.                      *)
C33_IntakeInsertsOneRowOrFails ==
    [][now' = now =>
          LET cmd == pool'.cmd
              valid == cmd.EventType \in {"CREDIT", "DEBIT"}
              active == /\ cmd.ConfigID \in DOMAIN pool.configs
                        /\ pool.configs[cmd.ConfigID].IsActive
              accepted == valid /\ active /\ pool'.lookupOk /\ pool'.createOk
          IN  /\ accepted <=> pool'.err = EmptyStr
              /\ accepted =>
                    /\ Len(rows') = Len(rows) + 1
                    /\ SubSeq(rows', 1, Len(rows)) = rows
                    /\ LET m == rows'[Len(rows')]
                       IN  /\ m.status = StatusPending
                           /\ m.retry_count = 0
                           /\ m.next_retry_at = now
                           /\ m.webhook_url = pool.configs[cmd.ConfigID].WebhookURL
                           /\ m.event_type = cmd.EventType
                           /\ m.event_id = cmd.EventID
                           /\ m.config_id = cmd.ConfigID
                           /\ m.id \notin {rows[r].id : r \in RowIds}
              /\ ~accepted => rows' = rows]_vars

\* a DEBIT row was accepted at a later instant, and the last command, for
\* the inactive configuration, was refused
C33_Witness ==
    /\ Len(rows) = 2
    /\ rows[2].event_type = EventTypeDebit
    /\ rows[2].next_retry_at = 2
    /\ rows[2].webhook_url = ConfigWebhookURL
    /\ pool.cmd.ConfigID = InactiveConfigID
    /\ pool.err = <<"webhook config is not active: ", InactiveConfigID>>


(* C34.  The claim transaction is committed before Send starts, and no     *)
(* transaction or row lock is held while the HTTP call is in flight: from  *)
(* the claim to the terminal write the row is locked by nobody and is      *)
(* PROCESSING, and that status alone keeps other claimants away (were it   *)
(* PENDING, the row would be due at its level).                            *)
C34_OnlyStatusGuardsClaimedRow ==
    [][/\ \A r \in RowIds : \A w \in Workers :
             Holds(w, r) =>
                 /\ r \notin LockedRows
                 /\ rows[r].status = StatusProcessing
                 /\ \A k \in Levels : r \notin ClaimCandidates(k, now)
                 /\ Eligible([rows[r] EXCEPT !.status = StatusPending],
                             rows[r].retry_count, now)
       /\ \A r \in RowIds :
             sendCalls'[r] # sendCalls[r] =>
                 /\ r \notin LockedRows
                 /\ rows[r].status = StatusProcessing
                 /\ rows'[r] = rows[r]]_vars

\* a Send is in flight for one row while another worker's claim
\* transaction has a second row locked
C34_Witness ==
    \E v, w \in FlightWorkers :
        /\ worker[v].pc = "sending"
        /\ worker[w].pc = "locked"
        /\ worker[w].rowId # worker[v].webhook.ID
        /\ rows[worker[w].rowId].retry_count = rows[worker[v].webhook.ID].retry_count

----------------------------------------------------------------------------
(* C35.  The merge-update takes retry_count and next_retry_at as a pair:   *)
(* when the update's retry_count or its next_retry_at is non-zero, both    *)
(* persisted fields take the update's values, a zero among them included;  *)
(* when both are zero, both persisted fields stay as they were.            *)
C35_RetryFieldsMergedAsPair ==
    [][\A w \in Workers :
          (worker[w].pc = "update" /\ faults' = faults) =>
              LET u == worker[w].webhook
                  p == rows[u.ID]
                  q == rows'[u.ID]
              IN  IF u.RetryCount # 0 \/ u.NextRetryAt # ZeroTime
                  THEN q.retry_count = u.RetryCount /\ q.next_retry_at = u.NextRetryAt
                  ELSE q.retry_count = p.retry_count /\ q.next_retry_at = p.next_retry_at]_vars

\* an update with retry_count 0 and a set next_retry_at has put the row
\* that had failed at three levels back to retry_count 0
C35_Witness ==
    /\ worker[1].pc = "none"
    /\ worker[1].webhook.RetryCount = 0
    /\ worker[1].webhook.NextRetryAt # ZeroTime
    /\ rows[1].retry[2].started_at # Nil
    /\ rows[1].retry_count = 0
    /\ rows[1].next_retry_at = worker[1].webhook.NextRetryAt

----------------------------------------------------------------------------
----------------------------------------------------------------------------
----------------------------------------------------------------------------
(* C38.  Once Stop has cancelled a worker's context, that worker moves no  *)
(* row from PENDING to PROCESSING, also when its loop takes a tick after   *)
(* the cancellation: a claim begun on a cancelled context locks nothing, a *)
(* claim whose context is cancelled before the commit is rolled back, and  *)
(* every row that becomes PROCESSING is claimed on a live context.         *)
C38_CancelledWorkerClaimsNothing ==
    [][/\ \A r \in RowIds :
             (rows[r].status = StatusPending /\ rows'[r].status = StatusProcessing) =>
                 \E w \in Workers :
                     /\ Locks(w, r)
                     /\ ~worker[w].ctxDone
                     /\ worker'[w].pc = "claimed"
       /\ \A w \in Workers :
             (worker[w].ctxDone /\ worker'[w].pc # worker[w].pc) =>
                 /\ worker'[w].pc \notin {"locked", "claimed"}
                 /\ worker[w].pc \in {"select", "locked"} =>
                       /\ rows' = rows
                       /\ worker'[w].pc \in {"select", "none"}]_vars

\* a worker was cancelled inside its claim transaction, with the row locked
\* and still PENDING
C38_Witness ==
    \E w \in StopRoster :
        /\ worker[w].ctxDone
        /\ worker[w].pc = "locked"
        /\ pool.stopper[w] = "waiting"
        /\ rows[worker[w].rowId].status = StatusPending

----------------------------------------------------------------------------
(* The worker object on its own.  Start and Stop of WebhookWorker are      *)
(* called directly, any number of times and in any order, on the two       *)
(* workers of the roster above, built once by NewWebhookWorker; pool.werr  *)
(* holds what the last Start of each worker returned.                      *)

ErrWorkerAlreadyRunning == <<"worker is already running">>

InitWorker ==
    \E k \in {0, MaxRetryAttempts} :
        /\ rows = <<RowAtLevel(1, k, 1)>>
        /\ sendCalls = <<k>>
        /\ worker = [w \in Workers |-> IdleWorker("none", FALSE)]
        /\ pool = NewWorkerPool
        /\ now = 1
        /\ faults = 0

\* Start builds the worker anew, with a context of its own
WorkerStartFreshContext(w) ==
    /\ w \in StopRoster
    /\ w \notin pool.wmu
    /\ IF w \in pool.wrunning
       THEN /\ pool' = [pool EXCEPT !.werr[w] = ErrWorkerAlreadyRunning]
            /\ UNCHANGED worker
       ELSE /\ pool' = [pool EXCEPT !.wrunning = @ \cup {w}, !.werr[w] = EmptyStr]
            /\ worker' = [worker EXCEPT ![w] = IdleWorker("select", FALSE)]
    /\ UNCHANGED <<rows, sendCalls, now, faults>>

\* WebhookWorker.Start: under the worker's mutex, the running test, then
\* running = true, wg.Add(1), go processLoop on the context of construction
WorkerStart(w) ==
    /\ w \in StopRoster
    /\ w \notin pool.wmu
    /\ IF w \in pool.wrunning
       THEN /\ pool' = [pool EXCEPT !.werr[w] = ErrWorkerAlreadyRunning]
            /\ UNCHANGED worker
       ELSE /\ pool' = [pool EXCEPT !.wrunning = @ \cup {w}, !.werr[w] = EmptyStr]
            /\ worker' = [worker EXCEPT ![w] = IdleWorker("select", worker[w].ctxDone)]
    /\ UNCHANGED <<rows, sendCalls, now, faults>>

\* a goroutine calls WebhookWorker.Stop
CallWorkerStop(w) ==
    /\ w \in StopRoster
    /\ pool.stopper[w] \in {"none", "done"}
    /\ pool' = [pool EXCEPT !.stopper[w] = "spawned"]
    /\ UNCHANGED <<rows, sendCalls, worker, now, faults>>

NextWorker ==
    \/ AdvanceTime
    \/ \E w \in Workers : WorkerStart(w)
    \/ \E w \in Workers : CallWorkerStop(w)
    \/ \E w \in Workers : WorkerStop(w)
    \/ \E w \in Workers : processLoopExit(w)
    \/ \E w \in Workers : WorkerStopReturn(w)
    \/ \E w \in Workers : WorkerStep(w)

WorkerSpec == InitWorker /\ [][NextWorker]_vars


(* C39.  A worker that has been stopped cannot be brought back to work: a  *)
(* later Start on the same worker returns no error and marks it running,   *)
(* but the context made at construction stays cancelled, so the loop can   *)
(* only take its Done case and exit, and the worker never claims a row     *)
(* again.                                                                  *)
C39_StoppedWorkerStaysDead ==
    [][\A w \in StopRoster :
          /\ worker[w].ctxDone => worker'[w].ctxDone
          /\ (worker[w].ctxDone /\ worker[w].pc = "none" /\ worker'[w].pc # "none") =>
                /\ w \notin pool.wrunning
                /\ w \in pool'.wrunning
                /\ pool'.werr[w] = EmptyStr
                /\ worker'[w] = IdleWorker("select", TRUE)
          /\ (worker[w].ctxDone /\ worker[w].pc = "select" /\ worker'[w] # worker[w]) =>
                /\ worker'[w] = IdleWorker("none", TRUE)
                /\ rows' = rows
                /\ sendCalls' = sendCalls
          /\ \A r \in RowIds :
                (worker[w].ctxDone /\ worker[w].pc \in {"none", "select"}) =>
                    ~(worker'[w].pc = "locked" /\ worker'[w].rowId = r)]_vars

\* the worker is marked running after a second Start, its loop has exited
\* again, nobody is stopping it, and the row is due at its level
C39_Witness ==
    \E w \in StopRoster :
        /\ w \in pool.wrunning
        /\ w \notin pool.wmu
        /\ pool.stopper[w] = "done"
        /\ pool.werr[w] = EmptyStr
        /\ worker[w] = IdleWorker("none", TRUE)
        /\ ClaimCandidates(RetryLevel(w), now) # {}

----------------------------------------------------------------------------
(* Delivery of a soft-deleted row.  An administrator has set deleted_at on *)
(* the one waiting row before the pool was started.                        *)

InitDeleted ==
    /\ rows = <<[NewRow(1, 1) EXCEPT !.deleted_at = Ptr(1)]>>
    /\ sendCalls = <<0>>
    /\ worker = [w \in Workers |-> IdleWorker("select", FALSE)]
    /\ pool = "running"
    /\ now = 1
    /\ faults = 0

NextDeleted ==
    \/ AdvanceTime
    \/ \E w \in Workers : WorkerStep(w)

DeletedSpec == InitDeleted /\ [][NextDeleted]_vars

(* C40.  A PENDING row whose deleted_at is set is still selected by the    *)
(* claim and delivered: the claim looks at status, retry_count and         *)
(* next_retry_at only, so the soft-deleted row is a candidate of its level *)
(* whenever it is PENDING, due and unlocked, workers claim it and send it, *)
(* and nothing they write touches deleted_at.                              *)
C40_SoftDeletedRowIsStillClaimed ==
    [][\A r \in RowIds :
          /\ rows[r].deleted_at # Nil
          /\ rows'[r].deleted_at = rows[r].deleted_at
          /\ (/\ rows[r].status = StatusPending
              /\ rows[r].next_retry_at <= now
              /\ r \notin LockedRows) =>
                 r \in ClaimCandidates(rows[r].retry_count, now)
          /\ sendCalls'[r] # sendCalls[r] =>
                 \E w \in Holders(r) : worker[w].webhook.DeletedAt # Nil]_vars

\* the soft-deleted row has been sent at two levels and is COMPLETED
C40_Witness ==
    \E r \in RowIds :
        /\ rows[r].deleted_at # Nil
        /\ rows[r].status = StatusCompleted
        /\ rows[r].retry_count = 1
        /\ sendCalls[r] = 2

====
